---- MODULE Spec2Model ----
(***************************************************************************)
(* Paper-Reference-Check-Helper: the reference checker                     *)
(* (src/ref_checker_logic.py, class ReferenceChecker) and the handlers of  *)
(* the application that mutate its library (src/main_GUI.py,               *)
(* src/bib_utils.py, src/app_utils.py).                                    *)
(*                                                                         *)
(* Text is modelled structurally.  A string is a sequence of characters, a *)
(* character is a one-element TLA+ string.  A bibliography text is a       *)
(* sequence of lines, a line is one of a small catalogue of concrete       *)
(* BibTeX lines (LineText gives the text each stands for).  A document is  *)
(* a sequence of commands, each with the raw comma-separated pieces of its *)
(* argument.  A Python dict is a record [keys, val]: its keys in insertion *)
(* order and its mapping.                                                  *)
(***************************************************************************)
EXTENDS Integers, Sequences, FiniteSets, TLC

(***************************************************************************)
(* Bounds of the model.                                                    *)
(***************************************************************************)
\* characters of a title given to normalize_title
MaxTitleLen == 3
\* lines of a text of the scanner specification
MaxScanLines == 5
\* lines of a bibliography text (file content or pasted text)
MaxLines == 3
\* lines of a file loaded in the application specification
MaxFileLines == 2
\* lines of a text pasted in the application specification
MaxPasteLines == 1
\* lines of a text given to add_new_entry on its own
MaxAddLines == 2
\* calls of add_new_entry that insert, per behaviour of the application
MaxAdds == 1
\* citation commands of a document
MaxCmds == 2
\* comma-separated pieces of one citation command
MaxPieces == 2
\* records of a library drawn for the duplicate check
MaxLib == 2
\* records of a candidate text drawn for the duplicate check
MaxCand == 2
\* handlers that wait in processEvents() at one time
MaxDepth == 2

(***************************************************************************)
(* Sequences and Python dicts.                                             *)
(***************************************************************************)
Range(s) == {s[i] : i \in DOMAIN s}

NoDup(s) == \A i, j \in DOMAIN s : s[i] = s[j] => i = j

SeqsUpTo(S, n) == UNION {[1..m -> S] : m \in 0..n}

RECURSIVE SelectPos(_, _)
\* the positions of s, ascending, kept by the set P
SelectPos(s, P) ==
    IF s = <<>> THEN <<>>
    ELSE LET n == Len(s)
             front == SelectPos(SubSeq(s, 1, n - 1), P)
         IN IF n \in P THEN Append(front, s[n]) ELSE front

\* list.remove(x): removes the first occurrence
RemoveFirst(s, x) ==
    LET i == CHOOSE i \in DOMAIN s : s[i] = x /\ \A j \in 1..(i - 1) : s[j] # x
    IN SubSeq(s, 1, i - 1) \o SubSeq(s, i + 1, Len(s))

EmptyDict == [keys |-> <<>>, val |-> <<>>]

DictKeys(d) == Range(d.keys)

DictHas(d, k) == k \in DictKeys(d)

\* d[k] = v: a new key goes last, an existing key keeps its place
DictSet(d, k, v) ==
    [keys |-> IF DictHas(d, k) THEN d.keys ELSE Append(d.keys, k),
     val  |-> [x \in DictKeys(d) \cup {k} |-> IF x = k THEN v ELSE d.val[x]]]

\* del d[k]
DictDel(d, k) ==
    [keys |-> SelectPos(d.keys, {i \in DOMAIN d.keys : d.keys[i] # k}),
     val  |-> [x \in DictKeys(d) \ {k} |-> d.val[x]]]

(***************************************************************************)
(* Characters and strings.                                                 *)
(***************************************************************************)
\* the characters removed by the first substitution of normalize_title
MarkupChars == {"{", "}", "$", "\\"}

\* \s of the regular expressions, and what str.strip() removes
SpaceChars == {" ", "\t"}

UpperChars == {"A", "B", "S"}

\* "U+0130" is LATIN CAPITAL LETTER I WITH DOT ABOVE, a letter
LetterChars == {"a", "b", "c", "s", "i"} \cup UpperChars \cup {"U+0130"}

DigitChars == {"1", "2"}

\* \w of the regular expressions: alphanumeric characters and the underscore
WordChars == LetterChars \cup DigitChars \cup {"_"}

\* neither \w nor \s; "U+0307" is COMBINING DOT ABOVE, a nonspacing mark
PunctChars == {"&", "!", "U+0307"}

Chars == MarkupChars \cup SpaceChars \cup WordChars \cup PunctChars

\* str.lower() of one character; the result of U+0130 has two characters
LowerChar(c) ==
    CASE c = "A" -> <<"a">>
      [] c = "B" -> <<"b">>
      [] c = "S" -> <<"s">>
      [] c = "U+0130" -> <<"i", "U+0307">>
      [] OTHER -> <<c>>

RECURSIVE Lower(_)
\* str.lower()
Lower(s) ==
    IF s = <<>> THEN <<>> ELSE LowerChar(Head(s)) \o Lower(Tail(s))

\* re.sub of a character class by "": the characters outside Drop remain
RemoveChars(s, Drop) == SelectPos(s, {i \in DOMAIN s : s[i] \notin Drop})

\* re.sub(r"\s+", " ", s): every run of whitespace becomes one space
CollapseSpace(s) ==
    LET kept == {i \in DOMAIN s :
                   s[i] \in SpaceChars => (i = 1 \/ s[i - 1] \notin SpaceChars)}
        t == SelectPos(s, kept)
    IN [i \in DOMAIN t |-> IF t[i] \in SpaceChars THEN " " ELSE t[i]]

\* str.strip()
Strip(s) ==
    LET ink == {i \in DOMAIN s : s[i] \notin SpaceChars}
    IN IF ink = {} THEN <<>>
       ELSE LET lo == CHOOSE i \in ink : \A j \in ink : i <= j
                hi == CHOOSE i \in ink : \A j \in ink : j <= i
            IN SubSeq(s, lo, hi)

\* the value None; None and "" are both false in a condition
None == <<"None">>

\* ReferenceChecker.normalize_title
normalize_title(title) ==
    IF title = <<>> \/ title = None THEN <<>>
    ELSE LET t1 == RemoveChars(title, MarkupChars)
             t2 == Lower(RemoveChars(t1, Chars \ (WordChars \cup SpaceChars)))
         IN Strip(CollapseSpace(t2))

(***************************************************************************)
(* difflib.SequenceMatcher(None, a, b).ratio(), for strings shorter than   *)
(* the 200 characters at which the automatic junk heuristic starts.        *)
(***************************************************************************)
RECURSIVE RunLen(_, _, _, _, _, _)
\* length of the common run of a[i..ahi] and b[j..bhi] that starts at i, j
RunLen(a, b, i, j, ahi, bhi) ==
    IF i > ahi \/ j > bhi \/ a[i] # b[j] THEN 0
    ELSE 1 + RunLen(a, b, i + 1, j + 1, ahi, bhi)

\* the length of the common run that starts at each pair of places of
\* a[alo..ahi] and b[blo..bhi]
RunLens(a, b, alo, ahi, blo, bhi) ==
    [p \in (alo..ahi) \X (blo..bhi) |-> RunLen(a, b, p[1], p[2], ahi, bhi)]

\* the pair of places of the longest run, of those the one that starts
\* earliest in a, of those the one that starts earliest in b
Longest(size) ==
    CHOOSE p \in DOMAIN size :
       \A q \in DOMAIN size :
          \/ size[q] < size[p]
          \/ size[q] = size[p] /\ p[1] < q[1]
          \/ size[q] = size[p] /\ p[1] = q[1] /\ p[2] <= q[2]

Match(size, best) == [i |-> best[1], j |-> best[2], size |-> size[best]]

LongestMatch(size) == Match(size, Longest(size))

\* SequenceMatcher.find_longest_match(alo, ahi, blo, bhi)
find_longest_match(a, b, alo, ahi, blo, bhi) ==
    LongestMatch(RunLens(a, b, alo, ahi, blo, bhi))

RECURSIVE MatchCount(_, _, _, _, _, _)
RECURSIVE CountAround(_, _, _, _, _, _, _)
\* the matches of a[alo..ahi] and b[blo..bhi] given their longest block m:
\* the block, and the matches to its left and to its right
CountAround(a, b, alo, ahi, blo, bhi, m) ==
    IF m.size = 0 THEN 0
    ELSE m.size
         + MatchCount(a, b, alo, m.i - 1, blo, m.j - 1)
         + MatchCount(a, b, m.i + m.size, ahi, m.j + m.size, bhi)

\* SequenceMatcher.get_matching_blocks: the total size of the blocks
MatchCount(a, b, alo, ahi, blo, bhi) ==
    IF alo > ahi \/ blo > bhi THEN 0
    ELSE CountAround(a, b, alo, ahi, blo, bhi,
                     find_longest_match(a, b, alo, ahi, blo, bhi))

\* the ratio 2.0 * matches / (len(a) + len(b)) as a fraction, 1.0 when both
\* strings are empty
Ratio(a, b) ==
    IF Len(a) + Len(b) = 0 THEN [num |-> 1, den |-> 1]
    ELSE [num |-> 2 * MatchCount(a, b, 1, Len(a), 1, Len(b)),
          den |-> Len(a) + Len(b)]

\* fractions with positive denominators
FracGE(x, y) == x.num * y.den >= y.num * x.den

FracGT(x, y) == x.num * y.den > y.num * x.den

\* the bound 0.3 of check_duplicates on the year and author ratios
SecondaryBound == [num |-> 3, den |-> 10]

\* the default title_threshold 0.9 of check_duplicates
DefaultThreshold == [num |-> 9, den |-> 10]

\* ReferenceChecker.are_titles_similar
are_titles_similar(title1, title2, threshold) ==
    FracGE(Ratio(title1, title2), threshold)

(***************************************************************************)
(* Bibliography text: the catalogue of lines.                              *)
(***************************************************************************)
\* the keys that the lines of the catalogue define; a key is a string
Keys == {<<"a">>, <<"b">>}

\* the other key
OtherKey(k) == IF k = <<"a">> THEN <<"b">> ELSE <<"a">>

RecIds == {1, 2}

\* the records of the duplicate check as well
DupRecIds == {1, 2, 3, 4, 5}

\* a name of seventeen characters, three of them those of "abs"
LongName == <<"a", "b", "s">> \o [i \in 1..14 |-> "1"]

\* the field values that the lines of the catalogue write; an author value
\* is one word
RawRec(r) ==
    CASE r = 1 -> [title |-> <<"{", "A", "}", "b">>, author |-> <<"S">>,
                   year |-> <<"1">>]
      [] r = 2 -> [title |-> <<"b", "a">>, author |-> <<"s">>, year |-> <<"2">>]
      [] r = 3 -> [title |-> <<"b", "a">>, author |-> <<"s">>, year |-> <<"1">>]
      [] r = 4 -> [title |-> <<"a", "b">>, author |-> <<"a", "b", "s">>,
                   year |-> <<"1">>]
      [] r = 5 -> [title |-> <<"a", "b">>, author |-> LongName, year |-> <<"1">>]

NoFields == [title |-> <<>>, author |-> <<>>, year |-> <<>>]

Line(t, k, r) == [t |-> t, k |-> k, r |-> r]

\* the text each line of the catalogue stands for, with K the key, K2 the
\* other key and T, A, Y the field values of RawRec
LineText(l) ==
    CASE l.t = "one"      -> "@article{K, title = {T}, author = {A}, year = {Y}}"
      [] l.t = "two"      -> "@article{K, title = {T}} @article{K2, title = {T}}"
      [] l.t = "paren"    -> "@article (K, title = {T}, author = {A}, year = {Y})"
      [] l.t = "bad"      -> "@article{K, title = }"
      [] l.t = "blankkey" -> "@article{ , title = {T}}"
      [] l.t = "open"     -> "@article{K,"
      [] l.t = "fld"      -> "  title = {T}, year = {Y},"
      [] l.t = "fldopen"  -> "  note = {"
      [] l.t = "close"    -> "}"
      [] l.t = "blank"    -> ""

Lines ==
    {Line("one", k, r) : k \in Keys, r \in RecIds}
    \cup {Line("open", k, 0) : k \in Keys}
    \cup {Line("bad", <<"a">>, 0), Line("two", <<"a">>, 1),
          Line("paren", <<"b">>, 1), Line("blankkey", <<>>, 1),
          Line("fld", <<>>, 2), Line("fldopen", <<>>, 0),
          Line("close", <<>>, 0), Line("blank", <<>>, 0)}

\* line.strip().startswith('@')
StartsWithAt(l) == l.t \in {"one", "two", "paren", "bad", "blankkey", "open"}

\* re.search(r'@\w+\{([^,]+)', line) and match.group(1).strip(): the pattern
\* does not match the parenthesised form; the blank key strips to ""
KeyMatch(l) ==
    CASE l.t \in {"one", "two", "bad", "open"} -> [found |-> TRUE, key |-> l.k]
      [] l.t = "blankkey" -> [found |-> TRUE, key |-> <<>>]
      [] OTHER -> [found |-> FALSE, key |-> <<>>]

\* line.count('{') - line.count('}')
BraceDelta(l) ==
    CASE l.t \in {"open", "fldopen"} -> 1
      [] l.t = "close" -> -1
      [] OTHER -> 0

Truthy(key) == key # None /\ key # <<>>

(***************************************************************************)
(* pybtex.database.parse_string(block, 'bibtex') on the lines of the       *)
(* catalogue.  Text outside an entry is skipped; in strict mode (the       *)
(* default) a syntax error and a repeated key raise.                       *)
(***************************************************************************)
DecodeStart == [ok |-> TRUE, mode |-> "out", depth |-> 0, sep |-> TRUE,
                key |-> <<>>, fields |-> NoFields, entries |-> <<>>]

\* the entry is complete: the decoder puts the names of the author field
\* into entry.persons and every other field into entry.fields
Emit(st, k, f) ==
    IF \E i \in DOMAIN st.entries : st.entries[i].key = k
    THEN [st EXCEPT !.ok = FALSE]
    ELSE [st EXCEPT !.mode = "out",
                    !.entries = Append(st.entries,
                        [key |-> k,
                         fields |-> [title |-> f.title, year |-> f.year],
                         persons |-> [author |-> f.author]])]

DecodeLine(st, l) ==
    IF ~st.ok THEN st
    ELSE IF st.mode = "out" THEN
        CASE l.t \in {"one", "paren"} -> Emit(st, l.k, RawRec(l.r))
          [] l.t = "two" ->
               Emit(Emit(st, l.k, [NoFields EXCEPT !.title = RawRec(l.r).title]),
                    OtherKey(l.k), [NoFields EXCEPT !.title = RawRec(l.r).title])
          [] l.t \in {"bad", "blankkey"} -> [st EXCEPT !.ok = FALSE]
          [] l.t = "open" ->
               [st EXCEPT !.mode = "in", !.depth = 0, !.sep = TRUE,
                          !.key = l.k, !.fields = NoFields]
          [] OTHER -> st
    ELSE IF st.depth > 0 THEN
        \* inside a braced field value every line is text of the value
        LET d == st.depth + BraceDelta(l)
        IN [st EXCEPT !.depth = d, !.sep = (d > 0)]
    ELSE
        CASE l.t = "blank" -> st
          [] l.t = "close" -> Emit(st, st.key, st.fields)
          [] l.t = "fld" /\ st.sep ->
               [st EXCEPT !.fields = [st.fields EXCEPT !.title = RawRec(l.r).title,
                                                       !.year = RawRec(l.r).year]]
          [] l.t = "fldopen" /\ st.sep -> [st EXCEPT !.depth = 1]
          [] OTHER -> [st EXCEPT !.ok = FALSE]

RECURSIVE DecodeFrom(_, _)
DecodeFrom(st, block) ==
    IF block = <<>> THEN st ELSE DecodeFrom(DecodeLine(st, Head(block)), Tail(block))

\* the result at the end of the text: an entry that is still open is a
\* syntax error
Decoded(st) ==
    IF st.ok /\ st.mode = "out"
    THEN [ok |-> TRUE, entries |-> st.entries]
    ELSE [ok |-> FALSE, entries |-> <<>>]

\* parse_string: [ok, entries]; ok is FALSE when it raises
Decode(block) == Decoded(DecodeFrom(DecodeStart, block))

\* block.strip(): the blank lines at both ends go
StripBlock(block) ==
    LET ink == {i \in DOMAIN block : block[i].t # "blank"}
    IN IF ink = {} THEN <<>>
       ELSE LET lo == CHOOSE i \in ink : \A j \in ink : i <= j
                hi == CHOOSE i \in ink : \A j \in ink : j <= i
            IN SubSeq(block, lo, hi)

(***************************************************************************)
(* ReferenceChecker: the parser.                                           *)
(***************************************************************************)
\* entry.fields.get(name, ''); a field of the catalogue with no value is a
\* field that the entry does not have
FieldGet(fields, name) ==
    IF name \in DOMAIN fields THEN fields[name] ELSE <<>>

\* the dict that _parse_and_store builds for one decoded entry
EntryFields(e) ==
    [key    |-> e.key,
     title  |-> normalize_title(FieldGet(e.fields, "title")),
     author |-> Lower(FieldGet(e.fields, "author")),
     year   |-> FieldGet(e.fields, "year")]

RECURSIVE StoreEntries(_, _, _)
\* the loop of _parse_and_store over bib_data.entries.items(); lib is the
\* pair [entries, original] of the two dicts it fills
StoreEntries(decoded, block, lib) ==
    IF decoded = <<>> THEN lib
    ELSE LET e == Head(decoded)
         IN StoreEntries(Tail(decoded), block,
                [entries  |-> DictSet(lib.entries, e.key, EntryFields(e)),
                 original |-> DictSet(lib.original, e.key, StripBlock(block))])

\* the try block of _parse_and_store given the result d of parse_string: a
\* block that the decoder rejects is reported on standard output and
\* changes nothing
Stored(d, block, lib) ==
    IF d.ok THEN StoreEntries(d.entries, block, lib) ELSE lib

\* _parse_and_store that lets the decoder's exception escape: the caller's
\* result is then lost, which the empty pair stands for
parse_and_store_raising(block, lib) ==
    IF Decode(block).ok THEN Stored(Decode(block), block, lib)
    ELSE [entries |-> EmptyDict, original |-> EmptyDict]

\* ReferenceChecker._parse_and_store
parse_and_store(block, lib) == Stored(Decode(block), block, lib)

EmptyLib == [entries |-> EmptyDict, original |-> EmptyDict]

\* the locals of the two scanning loops before the first line; blocks is the
\* history of the calls of _parse_and_store: the key and the block of each
ScanStart == [lib |-> EmptyLib, order |-> <<>>, blocks |-> <<>>,
              block |-> <<>>, count |-> 0, key |-> None]

\* self._parse_and_store(current_block, entries, ..., current_key)
Flush(st) ==
    [st EXCEPT !.lib = parse_and_store(st.block, st.lib),
               !.blocks = Append(st.blocks, [key |-> st.key, block |-> st.block])]

\* the flush of load_bib_file at a line that starts an entry
LoadFlushed(st, l) ==
    IF StartsWithAt(l) /\ st.block # <<>> /\ st.count = 0 /\ Truthy(st.key)
    THEN [Flush(st) EXCEPT !.order = Append(st.order, st.key)]
    ELSE st

\* a line that starts an entry resets the block and the count, and sets the
\* key when the pattern matches
Restarted(st, l) ==
    IF StartsWithAt(l)
    THEN [st EXCEPT !.block = <<>>, !.count = 0,
                    !.key = IF KeyMatch(l).found THEN KeyMatch(l).key ELSE st.key]
    ELSE st

\* current_block += line + "\n" and the count of its braces
Accumulated(st, l) ==
    [st EXCEPT !.block = Append(st.block, l), !.count = st.count + BraceDelta(l)]

\* an accumulation that takes only the lines that start an entry
LoadAccumulatedAtStart(st, l) ==
    IF StartsWithAt(l) THEN Accumulated(st, l) ELSE st

\* load_bib_file accumulates once a block has begun
LoadAccumulated(st, l) ==
    IF st.block # <<>> \/ StartsWithAt(l) THEN Accumulated(st, l) ELSE st

\* one iteration of the loop of load_bib_file
LoadLine(st, l) == LoadAccumulated(Restarted(LoadFlushed(st, l), l), l)

RECURSIVE LoadLoop(_, _)
LoadLoop(st, lines) ==
    IF lines = <<>> THEN st ELSE LoadLoop(LoadLine(st, Head(lines)), Tail(lines))

\* the end of load_bib_file without the flush of the last block
LoadEndUnflushed(st) == st

\* the flush of the last block that is made only at brace depth zero
LoadEndBalanced(st) ==
    IF StripBlock(st.block) # <<>> /\ Truthy(st.key) /\ st.count = 0
    THEN [Flush(st) EXCEPT !.order = Append(st.order, st.key)]
    ELSE st

\* the flush of the last block of load_bib_file
LoadEnd(st) ==
    IF StripBlock(st.block) # <<>> /\ Truthy(st.key)
    THEN [Flush(st) EXCEPT !.order = Append(st.order, st.key)]
    ELSE st

\* the scan of load_bib_file over the content of the file with the flush
\* of the last block: its locals at the end, of which lib is the two dicts,
\* order is entry_order and blocks the blocks given to _parse_and_store
LoadScan(lines) == LoadEnd(LoadLoop(ScanStart, lines))

\* the flush of parse_bib_string at a line that starts an entry
ParseFlushed(st, l) ==
    IF StartsWithAt(l) /\ st.block # <<>> /\ st.count = 0 /\ Truthy(st.key)
    THEN Flush(st)
    ELSE st

\* parse_bib_string accumulates once a key has been found
ParseAccumulated(st, l) ==
    IF Truthy(st.key) THEN Accumulated(st, l) ELSE st

\* one iteration of the loop of parse_bib_string
ParseLine(st, l) == ParseAccumulated(Restarted(ParseFlushed(st, l), l), l)

RECURSIVE ParseLoop(_, _)
ParseLoop(st, lines) ==
    IF lines = <<>> THEN st ELSE ParseLoop(ParseLine(st, Head(lines)), Tail(lines))

\* the flush of the last block of parse_bib_string
ParseEnd(st) ==
    IF StripBlock(st.block) # <<>> /\ Truthy(st.key) THEN Flush(st) ELSE st

\* the scan of parse_bib_string over the lines of the text with the flush
\* of the last block: its locals at the end
ParseScan(lines) == ParseEnd(ParseLoop(ScanStart, lines))

\* bib_content.strip() is empty: the text has no line or only blank lines
IsBlankText(lines) == \A i \in DOMAIN lines : lines[i].t = "blank"

NotLoaded == "ValueError: The main .bib file has not been loaded yet."

ParseFailed == "ValueError: Failed to parse user BibTeX input."

NotFound == "FileNotFoundError"

\* the end of parse_bib_string without the test `if not entries`
ParseResultLenient(lib) ==
    [err |-> "", entries |-> lib.entries, original |-> lib.original]

\* the end of parse_bib_string: it raises when no record was decoded
ParseResult(lib) ==
    IF lib.entries.keys = <<>>
    THEN [err |-> ParseFailed, entries |-> EmptyDict, original |-> EmptyDict]
    ELSE [err |-> "", entries |-> lib.entries, original |-> lib.original]

\* ReferenceChecker.parse_bib_string: [err, entries, original]; err is ""
\* when it returns and the message of the ValueError when it raises
parse_bib_string(lines) ==
    IF IsBlankText(lines)
    THEN [err |-> "", entries |-> EmptyDict, original |-> EmptyDict]
    ELSE ParseResult(ParseScan(lines).lib)

(***************************************************************************)
(* ReferenceChecker: the duplicate check.                                  *)
(***************************************************************************)
\* the two conditions of the inner loop of check_duplicates
Accepted(u, e, threshold) ==
    /\ are_titles_similar(u.title, e.title, threshold)
    /\ FracGT(Ratio(u.year, e.year), SecondaryBound)
    /\ FracGT(Ratio(u.author, e.author), SecondaryBound)

DupRecord(u_key, e_key, u) ==
    [user_key |-> u_key, existing_key |-> e_key, title |-> u.title,
     reason |-> "Title match + partial metadata"]

\* the places in the library of the records that candidate record u is
\* accepted with
AcceptedAt(u, entries, threshold) ==
    {i \in DOMAIN entries.keys :
        Accepted(u, entries.val[entries.keys[i]], threshold)}

\* the place with the best title score, the first of those
BestOf(hits, u_key, u, entries) ==
    IF hits = {} THEN <<>>
    ELSE <<DupRecord(u_key,
              entries.keys[CHOOSE i \in hits :
                  \A j \in hits :
                     \/ FracGT(Ratio(u.title, entries.val[entries.keys[i]].title),
                               Ratio(u.title, entries.val[entries.keys[j]].title))
                     \/ /\ ~FracGT(Ratio(u.title, entries.val[entries.keys[j]].title),
                                    Ratio(u.title, entries.val[entries.keys[i]].title))
                        /\ i <= j],
              u)>>

\* the first place: the loop breaks there
FirstOf(hits, u_key, u, entries) ==
    IF hits = {} THEN <<>>
    ELSE <<DupRecord(u_key, entries.keys[CHOOSE i \in hits : \A j \in hits : i <= j],
                     u)>>

\* the inner loop that keeps the best title score instead of the first hit
MatchesOfBest(u_key, u, entries, threshold) ==
    BestOf(AcceptedAt(u, entries, threshold), u_key, u, entries)

\* the inner loop of check_duplicates over self.bib_entries.items(): the
\* first accepted library record, then break
MatchesOf(u_key, u, entries, threshold) ==
    FirstOf(AcceptedAt(u, entries, threshold), u_key, u, entries)

RECURSIVE DuplicatesFrom(_, _, _, _)
\* the outer loop of check_duplicates over user_entries.items()
DuplicatesFrom(ukeys, user_entries, entries, threshold) ==
    IF ukeys = <<>> THEN <<>>
    ELSE MatchesOf(Head(ukeys), user_entries.val[Head(ukeys)], entries, threshold)
         \o DuplicatesFrom(Tail(ukeys), user_entries, entries, threshold)

\* check_duplicates from the result of parse_bib_string on: its exception
\* goes to the caller
DuplicatesOf(parsed, entries, threshold) ==
    IF parsed.err # "" THEN [err |-> parsed.err, val |-> <<>>]
    ELSE [err |-> "",
          val |-> DuplicatesFrom(parsed.entries.keys, parsed.entries, entries,
                                 threshold)]

\* check_duplicates that parses the text before it looks at the library
check_duplicates_parse_first(entries, user_text, threshold) ==
    IF parse_bib_string(user_text).err = "" /\ entries.keys = <<>>
    THEN [err |-> NotLoaded, val |-> <<>>]
    ELSE DuplicatesOf(parse_bib_string(user_text), entries, threshold)

\* ReferenceChecker.check_duplicates on the library `entries`: [err, val]
check_duplicates(entries, user_text, threshold) ==
    IF entries.keys = <<>> THEN [err |-> NotLoaded, val |-> <<>>]
    ELSE DuplicatesOf(parse_bib_string(user_text), entries, threshold)

(***************************************************************************)
(* ReferenceChecker: citations.  A document is [exists, cmds]: whether the *)
(* path exists, and the commands of its content, each [cmd, pieces] with   *)
(* pieces the argument split at its commas.                                *)
(***************************************************************************)
\* the pattern \\cite(?:p)?\{([^}]*)\} matches \cite{...} and \citep{...}
PatternMatches(c) == c.cmd \in {"cite", "citep"}

\* the keys of a match without the filter of the empty strings
KeysOfMatchUnfiltered(pieces) == [i \in DOMAIN pieces |-> Strip(pieces[i])]

\* keys = [k.strip() for k in m.split(',')]; keys = [k for k in keys if k]
KeysOfMatch(pieces) ==
    LET stripped == [i \in DOMAIN pieces |-> Strip(pieces[i])]
    IN SelectPos(stripped, {i \in DOMAIN stripped : stripped[i] # <<>>})

RECURSIVE AllKeys(_)
\* all_keys: the keys of every match, in order of occurrence
AllKeys(cmds) ==
    IF cmds = <<>> THEN <<>>
    ELSE (IF PatternMatches(Head(cmds)) THEN KeysOfMatch(Head(cmds).pieces)
          ELSE <<>>) \o AllKeys(Tail(cmds))

\* Counter(all_keys)[k]
Tally(all, k) == Cardinality({i \in DOMAIN all : all[i] = k})

\* duplicated_keys that counts the commands a key occurs in, not the
\* occurrences
DuplicatedKeysPerCommand(cmds) ==
    [k \in {x \in Range(AllKeys(cmds)) :
               Cardinality({i \in DOMAIN cmds : x \in Range(AllKeys(<<cmds[i]>>))}) > 1}
       |-> Cardinality({i \in DOMAIN cmds : k \in Range(AllKeys(<<cmds[i]>>))})]

\* {key: count for key, count in counter.items() if count > 1}
Duplicated(all) ==
    [k \in {x \in Range(all) : Tally(all, x) > 1} |-> Tally(all, k)]

\* duplicated_keys of extract_citations_from_tex
DuplicatedKeys(cmds) == Duplicated(AllKeys(cmds))

\* ReferenceChecker.extract_citations_from_tex: [err, cited_keys, duplicated]
extract_citations_from_tex(doc) ==
    IF ~doc.exists THEN [err |-> NotFound, cited_keys |-> {}, duplicated |-> <<>>]
    ELSE [err |-> "", cited_keys |-> Range(AllKeys(doc.cmds)),
          duplicated |-> DuplicatedKeys(doc.cmds)]

\* the code point of a character
CodePoint(c) ==
    CASE c = "\t" -> 9   [] c = " " -> 32  [] c = "!" -> 33  [] c = "$" -> 36
      [] c = "&" -> 38   [] c = "1" -> 49  [] c = "2" -> 50  [] c = "A" -> 65
      [] c = "B" -> 66   [] c = "S" -> 83  [] c = "\\" -> 92 [] c = "_" -> 95
      [] c = "a" -> 97   [] c = "b" -> 98  [] c = "c" -> 99  [] c = "i" -> 105
      [] c = "s" -> 115  [] c = "{" -> 123 [] c = "}" -> 125
      [] c = "U+0130" -> 304 [] c = "U+0307" -> 775

RECURSIVE StrLess(_, _)
\* a < b of two strings
StrLess(a, b) ==
    IF b = <<>> THEN FALSE
    ELSE IF a = <<>> THEN TRUE
    ELSE IF CodePoint(Head(a)) # CodePoint(Head(b))
         THEN CodePoint(Head(a)) < CodePoint(Head(b))
    ELSE StrLess(Tail(a), Tail(b))

RECURSIVE SortedDescending(_)
\* the strings of S in descending order
SortedDescending(S) ==
    IF S = {} THEN <<>>
    ELSE LET m == CHOOSE x \in S : \A y \in S : x = y \/ StrLess(y, x)
         IN <<m>> \o SortedDescending(S \ {m})

RECURSIVE SortedList(_)
\* sorted(list(S)) of a set of strings
SortedList(S) ==
    IF S = {} THEN <<>>
    ELSE LET m == CHOOSE x \in S : \A y \in S : x = y \/ StrLess(x, y)
         IN <<m>> \o SortedList(S \ {m})

NoAnalysis == [unreferenced |-> <<>>, missing |-> <<>>, duplicates |-> <<>>]

\* analyze_tex_citations from the result ex of the extraction on: its
\* exception goes to the caller
Analysis(ex, bib_keys) ==
    IF ex.err # "" THEN [err |-> ex.err, val |-> NoAnalysis]
    ELSE [err |-> "",
          val |-> [unreferenced |-> SortedList(bib_keys \ ex.cited_keys),
                   missing      |-> SortedList(ex.cited_keys \ bib_keys),
                   duplicates   |-> ex.duplicated]]

\* analyze_tex_citations without sorted(): unreferenced in the order of the
\* library and missing in the order of citation
analyze_tex_citations_unsorted(entries, doc) ==
    IF entries.keys = <<>> THEN [err |-> NotLoaded, val |-> NoAnalysis]
    ELSE IF ~doc.exists THEN [err |-> NotFound, val |-> NoAnalysis]
    ELSE [err |-> "",
          val |-> [unreferenced |->
                       SelectPos(entries.keys,
                           {i \in DOMAIN entries.keys :
                               entries.keys[i] \notin Range(AllKeys(doc.cmds))}),
                   missing |->
                       SelectPos(AllKeys(doc.cmds),
                           {i \in DOMAIN AllKeys(doc.cmds) :
                               /\ ~DictHas(entries, AllKeys(doc.cmds)[i])
                               /\ \A j \in 1..(i - 1) :
                                     AllKeys(doc.cmds)[j] # AllKeys(doc.cmds)[i]}),
                   duplicates |-> DuplicatedKeys(doc.cmds)]]

\* ReferenceChecker.analyze_tex_citations on the library `entries`: [err, val]
analyze_tex_citations(entries, doc) ==
    IF entries.keys = <<>> THEN [err |-> NotLoaded, val |-> NoAnalysis]
    ELSE Analysis(extract_citations_from_tex(doc), DictKeys(entries))

(***************************************************************************)
(* The content that save_bib_file and export_bib_file write.               *)
(***************************************************************************)
BlankLine == Line("blank", <<>>, 0)

RECURSIVE new_content(_, _)
\* the loop of save_bib_file and of export_bib_file over bib_entries_list:
\* new_content += original_entries[key] + "\n\n" for the keys that have a
\* verbatim text; the lines of the text, then one blank line
new_content(list, original) ==
    IF list = <<>> THEN <<>>
    ELSE (IF DictHas(original, Head(list))
          THEN Append(original.val[Head(list)], BlankLine)
          ELSE <<>>) \o new_content(Tail(list), original)

(***************************************************************************)
(* State.                                                                  *)
(***************************************************************************)
VARIABLES
    bib_entries,        \* ReferenceChecker.bib_entries: dict key -> record
    original_entries,   \* ReferenceChecker.original_entries: dict key -> block
    entry_order,        \* ReferenceChecker.entry_order (set by load_bib_file)
    bib_entries_list,   \* PaperRefCheckApp.bib_entries_list
    shared,             \* bib_entries_list and entry_order are one list object
    bib_file_path,      \* PaperRefCheckApp.bib_file_path
    current_entry_key,  \* PaperRefCheckApp.current_entry_key
    adds,               \* insertions made by add_new_entry so far
    pending,            \* the handlers that wait in processEvents(), innermost last
    call                \* the last call: [op, arg, err, val]

checker_vars == <<bib_entries, original_entries, entry_order>>

app_vars == <<bib_entries_list, shared, bib_file_path, current_entry_key, adds,
              pending>>

vars == <<bib_entries, original_entries, entry_order, bib_entries_list, shared,
          bib_file_path, current_entry_key, adds, pending, call>>

Call(op, arg, err, val) == [op |-> op, arg |-> arg, err |-> err, val |-> val]

\* ReferenceChecker.__init__ and PaperRefCheckApp.__init__; entry_order does
\* not exist before the first load and is read only after one
Init ==
    /\ bib_entries = EmptyDict
    /\ original_entries = EmptyDict
    /\ entry_order = <<>>
    /\ bib_entries_list = <<>>
    /\ shared = FALSE
    /\ bib_file_path = <<>>
    /\ current_entry_key = None
    /\ adds = 0
    /\ pending = <<>>
    /\ call = Call("init", <<>>, "", <<>>)

\* a file of the file system: whether the path exists, and its lines
File(exists, lines) == [exists |-> exists, lines |-> lines]

Texts(n) == SeqsUpTo(Lines, n)

(***************************************************************************)
(* The methods of ReferenceChecker as operations.                          *)
(***************************************************************************)
\* load_bib_file(file_path), file the file at that path
LoadBibFile(file) ==
    /\ IF ~file.exists
       THEN /\ UNCHANGED checker_vars
            /\ UNCHANGED shared
            /\ call' = Call("load_bib_file", file, NotFound, <<>>)
       ELSE \E r \in {LoadScan(file.lines)} :
               /\ bib_entries' = r.lib.entries
               /\ original_entries' = r.lib.original
               /\ entry_order' = r.order
               /\ shared' = FALSE
               /\ call' = Call("load_bib_file", file, "", Len(r.lib.entries.keys))
    /\ UNCHANGED <<bib_entries_list, bib_file_path, current_entry_key, adds,
                   pending>>

\* parse_bib_string(bib_content)
ParseBibString(text) ==
    \E r \in {parse_bib_string(text)} :
       /\ call' = Call("parse_bib_string", text, r.err,
                       [entries |-> r.entries, original |-> r.original])
       /\ UNCHANGED checker_vars
       /\ UNCHANGED app_vars

\* check_duplicates whose parser fills the dict of the library instead of a
\* dict of its own
CheckDuplicatesStoring(text, threshold) ==
    \E r \in {check_duplicates(bib_entries, text, threshold)} :
       /\ call' = Call("check_duplicates", [text |-> text, threshold |-> threshold],
                       r.err, r.val)
       /\ bib_entries' = IF r.err = "" THEN parse_bib_string(text).entries
                         ELSE bib_entries
       /\ UNCHANGED <<original_entries, entry_order>>
       /\ UNCHANGED app_vars

\* check_duplicates(user_bib_str, title_threshold)
CheckDuplicates(text, threshold) ==
    \E r \in {check_duplicates(bib_entries, text, threshold)} :
       /\ call' = Call("check_duplicates", [text |-> text, threshold |-> threshold],
                       r.err, r.val)
       /\ UNCHANGED checker_vars
       /\ UNCHANGED app_vars

\* extract_citations_from_tex(tex_file_path), doc the document at that path
ExtractCitationsFromTex(doc) ==
    \E r \in {extract_citations_from_tex(doc)} :
       /\ call' = Call("extract_citations_from_tex", doc, r.err,
                       [cited_keys |-> r.cited_keys, duplicated |-> r.duplicated])
       /\ UNCHANGED checker_vars
       /\ UNCHANGED app_vars

\* analyze_tex_citations(tex_file_path), doc the document at that path
AnalyzeTexCitations(doc) ==
    \E r \in {analyze_tex_citations(bib_entries, doc)} :
       /\ call' = Call("analyze_tex_citations", doc, r.err, r.val)
       /\ UNCHANGED checker_vars
       /\ UNCHANGED app_vars

\* the path that exists, whatever its content, and the path that does not
GoodPath == <<"p", "1">>

MissingPath == <<"p", "2">>

NoSuchFile == File(FALSE, <<>>)

\* a document of the file system: whether the path exists, and its commands
Doc(exists, cmds) == [exists |-> exists, cmds |-> cmds]

NoSuchDoc == Doc(FALSE, <<>>)

\* normalize_title(title)
NormalizeTitle(title) ==
    /\ call' = Call("normalize_title", title, "", normalize_title(title))
    /\ UNCHANGED checker_vars
    /\ UNCHANGED app_vars

\* the lines of the files and pasted texts of the application: complete
\* one-line entries, a line that the decoder rejects, a line with two entries
AppLines ==
    {Line("one", <<"a">>, 1), Line("one", <<"b">>, 2),
     Line("bad", <<"a">>, 0)}

\* the texts of at most n lines of the application
AppTexts(n) == SeqsUpTo(AppLines, n)

(***************************************************************************)
(* The handlers of PaperRefCheckApp that change the library.  What they    *)
(* draw on the screen is not part of the state.  For a handler, call holds *)
(* its name and the error it showed or raised.                             *)
(***************************************************************************)
Handled(op, err) == Call(op, <<>>, err, <<>>)

\* update_entries_list(): the exception it ends with, "" when it returns.
\* The records of _parse_and_store are dicts, so the read of entry.fields
\* raises AttributeError at the first key of the list that has a record;
\* with no such key, the refresh of the current entry raises KeyError
update_entries_list(list, entries, current) ==
    IF \E i \in DOMAIN list : DictHas(entries, list[i]) THEN "AttributeError"
    ELSE IF Truthy(current) /\ current \in Range(list) THEN "KeyError"
    ELSE ""

RECURSIVE AddAll(_, _, _)
\* the loop of add_new_entry over new_entries.items() on one of the dicts
AddAll(d, ks, new) ==
    IF ks = <<>> THEN d
    ELSE AddAll(DictSet(d, Head(ks), new.val[Head(ks)]), Tail(ks), new)

\* an insertion that puts the new keys before the entry chosen
InsertedBefore(list, new_keys, position) ==
    IF position = 0 THEN new_keys \o list
    ELSE IF position > Len(list) THEN list \o new_keys
    ELSE SubSeq(list, 1, position - 1) \o new_keys
         \o SubSeq(list, position, Len(list))

\* the ordered list after the insertion of add_new_entry
Inserted(list, new_keys, position) ==
    IF position = 0 THEN new_keys \o list
    ELSE IF position > Len(list) THEN list \o new_keys
    ELSE SubSeq(list, 1, position) \o new_keys
         \o SubSeq(list, position + 1, Len(list))

\* add_new_entry(bib_text); accepted and position are the answers of the
\* InsertDialog, which offers 0 .. len(bib_entries_list) + 1
AddNewEntry(text, accepted, position) ==
    \E r \in {parse_bib_string(text)} :
       /\ position \in 0..(Len(bib_entries_list) + 1)
       /\ IF r.err # ""
          THEN /\ call' = Handled("add_new_entry", r.err)
               /\ UNCHANGED checker_vars
               /\ UNCHANGED app_vars
          ELSE IF r.entries.keys = <<>>
          THEN /\ call' = Handled("add_new_entry", "could not parse")
               /\ UNCHANGED checker_vars
               /\ UNCHANGED app_vars
          ELSE IF ~accepted
          THEN /\ call' = Handled("add_new_entry", "cancelled")
               /\ UNCHANGED checker_vars
               /\ UNCHANGED app_vars
          ELSE /\ adds < MaxAdds
               /\ adds' = adds + 1
               /\ bib_entries' = AddAll(bib_entries, r.entries.keys, r.entries)
               /\ original_entries' =
                      AddAll(original_entries, r.entries.keys, r.original)
               /\ bib_entries_list' =
                      Inserted(bib_entries_list, r.entries.keys, position)
               \* extend() changes the list in place, the other two branches
               \* bind a new list
               /\ shared' = (shared /\ position # 0
                                    /\ position > Len(bib_entries_list))
               /\ entry_order' = IF shared' THEN bib_entries_list' ELSE entry_order
               /\ call' = Call("add_new_entry",
                      [text |-> text, position |-> position],
                      update_entries_list(bib_entries_list', bib_entries',
                                          current_entry_key), <<>>)
               /\ UNCHANGED <<bib_file_path, current_entry_key, pending>>

\* delete_entry(key); confirmed is the answer to the question
DeleteEntry(key, confirmed) ==
    IF confirmed /\ DictHas(bib_entries, key)
    THEN /\ bib_entries' = DictDel(bib_entries, key)
         /\ original_entries' = IF DictHas(original_entries, key)
                                THEN DictDel(original_entries, key)
                                ELSE original_entries
         /\ bib_entries_list' = IF key \in Range(bib_entries_list)
                                THEN RemoveFirst(bib_entries_list, key)
                                ELSE bib_entries_list
         \* remove() changes the list in place
         /\ entry_order' = IF shared THEN bib_entries_list' ELSE entry_order
         /\ current_entry_key' = IF current_entry_key = key THEN None
                                 ELSE current_entry_key
         /\ call' = Call("delete_entry", [key |-> key, confirmed |-> confirmed],
                update_entries_list(bib_entries_list', bib_entries',
                                    current_entry_key'), <<>>)
         /\ UNCHANGED <<shared, bib_file_path, adds, pending>>
    ELSE /\ call' = Call("delete_entry", [key |-> key, confirmed |-> confirmed],
                         "nothing deleted", <<>>)
         /\ UNCHANGED checker_vars
         /\ UNCHANGED app_vars

\* show_entry_details(key): the key becomes the current one, then the
\* lookup raises KeyError for a key that has no record, and for a record
\* the read of entry.type raises AttributeError, the records of
\* _parse_and_store being dicts; field_edits is {} in both cases
ShowEntryDetails(key) ==
    /\ current_entry_key' = key
    /\ call' = Handled("show_entry_details",
                       IF DictHas(bib_entries, key) THEN "AttributeError"
                       ELSE "KeyError")
    /\ UNCHANGED checker_vars
    /\ UNCHANGED <<bib_entries_list, shared, bib_file_path, adds, pending>>

\* entry.to_string('bibtex') on a record of the library: [err, text].  The
\* records of _parse_and_store are dicts, which have no to_string: the call
\* raises AttributeError for every record
to_string(entry) == [err |-> "AttributeError", text |-> <<>>]

\* save_entry_changes that stores a text although the generation failed
SaveEntryChangesPartial ==
    /\ call' = Handled("save_entry_changes",
                       IF ~Truthy(current_entry_key) THEN "no current entry"
                       ELSE IF ~DictHas(bib_entries, current_entry_key)
                            THEN "KeyError"
                       ELSE "Error generating BibTeX")
    /\ original_entries' =
           IF Truthy(current_entry_key) /\ DictHas(bib_entries, current_entry_key)
           THEN DictSet(original_entries, current_entry_key, <<>>)
           ELSE original_entries
    /\ UNCHANGED <<bib_entries, entry_order>>
    /\ UNCHANGED app_vars

\* save_entry_changes(): field_edits is {}, so the loop has no iteration;
\* the exception of entry.to_string is caught and shown before
\* original_entries is written
SaveEntryChanges ==
    IF ~Truthy(current_entry_key)
    THEN /\ call' = Handled("save_entry_changes", "no current entry")
         /\ UNCHANGED checker_vars
         /\ UNCHANGED app_vars
    ELSE IF ~DictHas(bib_entries, current_entry_key)
    THEN /\ call' = Handled("save_entry_changes", "KeyError")
         /\ UNCHANGED checker_vars
         /\ UNCHANGED app_vars
    ELSE \E original \in {to_string(bib_entries.val[current_entry_key])} :
            IF original.err # ""
            THEN /\ call' = Handled("save_entry_changes", "Error generating BibTeX")
                 /\ UNCHANGED checker_vars
                 /\ UNCHANGED app_vars
            ELSE /\ original_entries' =
                        DictSet(original_entries, current_entry_key, original.text)
                 /\ call' = Handled("save_entry_changes",
                        update_entries_list(bib_entries_list, bib_entries,
                                            current_entry_key))
                 /\ UNCHANGED <<bib_entries, entry_order>>
                 /\ UNCHANGED app_vars

\* save_bib_file(): the backup reads the file at bib_file_path, which fails
\* for the path that does not exist; the content written is the value of
\* the call
SaveBibFile ==
    /\ call' = IF bib_file_path = <<>>
               THEN Handled("save_bib_file", "No Bib file loaded.")
               ELSE IF bib_file_path = MissingPath
               THEN Handled("save_bib_file", "Failed to create backup")
               ELSE Call("save_bib_file", bib_file_path, "",
                         new_content(bib_entries_list, original_entries))
    /\ UNCHANGED checker_vars
    /\ UNCHANGED app_vars

\* export_bib_file(); chosen is whether the file dialog gave a path
ExportBibFile(chosen) ==
    /\ call' = IF bib_file_path = <<>>
               THEN Handled("export_bib_file", "No Bib file loaded.")
               ELSE IF ~chosen
               THEN Handled("export_bib_file", "cancelled")
               ELSE Call("export_bib_file", GoodPath, "",
                         new_content(bib_entries_list, original_entries))
    /\ UNCHANGED checker_vars
    /\ UNCHANGED app_vars

(***************************************************************************)
(* The handlers that load the file.  load_bib_data calls                   *)
(* QApplication.processEvents() after it has read bib_path_edit and before *)
(* it stores anything: the handlers of the queued events run within that   *)
(* call, and load_bib_data goes on when they have returned.  A handler     *)
(* that has reached the call is a frame [op, path] of the stack pending,   *)
(* with the path that it has read; the step that takes the frame off the   *)
(* stack is the rest of the handler.  The dialogs are modal and are        *)
(* answered within the step that opens them.                               *)
(*                                                                         *)
(* run_check_duplicates calls _pre_check, check_duplicates and             *)
(* add_new_entry one after the other, so the handlers it calls are         *)
(* functions of the library and the list as one value s:                   *)
(* [entries, original, order, list, shared, path].                         *)
(***************************************************************************)
AppState ==
    [entries |-> bib_entries, original |-> original_entries,
     order |-> entry_order, list |-> bib_entries_list, shared |-> shared,
     path |-> bib_file_path]

\* the text of a path edit and what is at that path
Source(path, file) == [path |-> path, file |-> file]

\* the texts of bib_path_edit
Paths == {<<>>, MissingPath, GoodPath}

\* the files that load_bib_file can find
Files == {NoSuchFile} \cup {File(TRUE, text) : text \in AppTexts(MaxFileLines)}

\* the file is one that can be at the path
FileAt(path, file) == file.exists <=> path = GoodPath

Frame(op, path) == [op |-> op, path |-> path]

\* the handler that waits innermost
Top == pending[Len(pending)]

\* a load that keeps the keys that the list held and puts the keys of the
\* file after them
LoadedStateAppending(s, r, path) ==
    [err |-> update_entries_list(s.list \o r.order, r.lib.entries,
                                 current_entry_key),
     s |-> [entries |-> r.lib.entries, original |-> r.lib.original,
            order |-> s.list \o r.order, list |-> s.list \o r.order,
            shared |-> TRUE, path |-> path]]

\* the value of s after load_bib_file has returned the scan r, and the
\* exception that update_entries_list raises, "" when it returns
LoadedState(s, r, path) ==
    [err |-> update_entries_list(r.order, r.lib.entries, current_entry_key),
     s |-> [entries |-> r.lib.entries, original |-> r.lib.original,
            order |-> r.order, list |-> r.order, shared |-> TRUE,
            path |-> path]]

\* load_bib_data() on s after processEvents() has returned, src the path
\* that it had read and the file there: [err, s]; it returns True when err
\* is ""
LoadResumed(s, src) ==
    IF ~src.file.exists
    THEN [err |-> NotFound, s |-> [s EXCEPT !.path = src.path]]
    ELSE LoadedState(s, LoadScan(src.file.lines), src.path)

\* load_bib_data() on s up to processEvents(): [yield, ret, s], yield when
\* it has reached the call, ret False when it has returned before
load_bib_data(s, path) == [yield |-> path # <<>>, ret |-> FALSE, s |-> s]

\* _pre_check(require_tex) from the return of load_bib_data on, ret what it
\* returned (True when it was not called) and tex_path the text of
\* tex_path_edit
TexChecked(ret, s, require_tex, tex_path) ==
    [yield |-> FALSE, ret |-> ret /\ ~(require_tex /\ tex_path = <<>>), s |-> s]

\* _pre_check(require_tex) on s up to processEvents(); the file is loaded
\* when the record map is empty
pre_check(s, path, require_tex, tex_path) ==
    IF s.entries.keys = <<>> THEN load_bib_data(s, path)
    ELSE TexChecked(TRUE, s, require_tex, tex_path)

\* _pre_check(require_tex) after its load_bib_data has ended as l
AfterLoad(l, require_tex, tex_path) ==
    TexChecked(l.err = "", l.s, require_tex, tex_path)

\* _pre_check(require_tex) on s after processEvents() has returned
PreCheckResumed(s, src, require_tex, tex_path) ==
    AfterLoad(LoadResumed(s, src), require_tex, tex_path)

\* the value of s after add_new_entry has stored the parsed entries r at
\* the position
AddedState(s, r, position) ==
    [s EXCEPT !.entries = AddAll(s.entries, r.entries.keys, r.entries),
              !.original = AddAll(s.original, r.entries.keys, r.original),
              !.list = Inserted(s.list, r.entries.keys, position),
              !.shared = s.shared /\ position # 0 /\ position > Len(s.list),
              !.order = IF s.shared /\ position # 0 /\ position > Len(s.list)
                        THEN Inserted(s.list, r.entries.keys, position)
                        ELSE s.order]

\* the end of add_new_entry after the insertion: the exception that
\* update_entries_list raises is caught and shown
AddedResult(s) ==
    [err |-> update_entries_list(s.list, s.entries, current_entry_key),
     added |-> TRUE, s |-> s]

\* add_new_entry on s with the parse result r: [err, added, s]
AddOutcome(s, r, accepted, position) ==
    IF r.err # "" THEN [err |-> r.err, added |-> FALSE, s |-> s]
    ELSE IF r.entries.keys = <<>>
    THEN [err |-> "could not parse", added |-> FALSE, s |-> s]
    ELSE IF ~accepted THEN [err |-> "cancelled", added |-> FALSE, s |-> s]
    ELSE AddedResult(AddedState(s, r, position))

\* add_new_entry(bib_text) on s
add_new_entry(s, text, accepted, position) ==
    AddOutcome(s, parse_bib_string(text), accepted, position)

\* `if duplicates:` on the result d of check_duplicates
HasDuplicates(d) == d.val # <<>>

\* the record of a flow: the path and the file that _pre_check has read,
\* the text pasted, the answer to the question, the error shown last or the
\* way it ended
Flow(src, text, reply, err) ==
    Call("run_check_duplicates",
         [src |-> Source(src.path, File(src.file.exists, src.file.lines)),
          text |-> text, reply |-> reply],
         err, <<>>)

\* the record of an analysis: the path and the file that _pre_check has
\* read, the text of tex_path_edit and the document there
Report(op, src, tex, err, val) ==
    Call(op,
         [src |-> Source(src.path, File(src.file.exists, src.file.lines)),
          tex |-> Source(tex.path, Doc(tex.file.exists, tex.file.cmds))],
         err, val)

\* the handler returns: s becomes the state
Returned(s, c) ==
    /\ bib_entries' = s.entries
    /\ original_entries' = s.original
    /\ entry_order' = s.order
    /\ bib_entries_list' = s.list
    /\ shared' = s.shared
    /\ bib_file_path' = s.path
    /\ call' = c
    /\ UNCHANGED current_entry_key

\* the handler op has read the path and calls processEvents()
Yield(op, path) ==
    /\ Len(pending) < MaxDepth
    /\ pending' = Append(pending, Frame(op, path))
    /\ UNCHANGED checker_vars
    /\ UNCHANGED <<bib_entries_list, shared, bib_file_path, current_entry_key,
                   adds, call>>

\* processEvents() returns to the handler op, which waits innermost; file
\* is what load_bib_file finds at the path that the handler has read
Resumes(op, file) ==
    /\ pending # <<>>
    /\ Top.op = op
    /\ FileAt(Top.path, file)
    /\ pending' = SubSeq(pending, 1, Len(pending) - 1)

\* load_bib_data() with bib_path_edit holding `path`, up to processEvents()
LoadBibData(path) ==
    IF load_bib_data(AppState, path).yield
    THEN Yield("load_bib_data", path)
    ELSE /\ call' = Handled("load_bib_data", "no path")
         /\ UNCHANGED checker_vars
         /\ UNCHANGED app_vars

\* load_bib_data() from the return of processEvents() on; the application
\* keeps the list object of the checker
LoadBibDataResumed(file) ==
    /\ Resumes("load_bib_data", file)
    /\ \E l \in {LoadResumed(AppState, Source(Top.path, file))} :
          Returned(l.s, Call("load_bib_data", File(file.exists, file.lines),
                             l.err, <<>>))
    /\ UNCHANGED adds

\* the branch of run_check_duplicates that asks the question and calls
\* add_new_entry; accepted and position are the answers of the InsertDialog
AskAndAdd(s, src, text) ==
    \E reply \in BOOLEAN :
       IF ~reply
       THEN /\ Returned(s, Flow(src, text, FALSE, "declined"))
            /\ UNCHANGED adds
       ELSE \E accepted \in BOOLEAN, position \in 0..(Len(s.list) + 1) :
               \E a \in {add_new_entry(s, text, accepted, position)} :
                  /\ a.added => adds < MaxAdds
                  /\ adds' = IF a.added THEN adds + 1 ELSE adds
                  /\ Returned(a.s, Flow(src, text, TRUE, a.err))

\* run_check_duplicates after the dialog gave a text: d is the result of
\* check_duplicates, whose exception is caught and shown
DuplicatesChecked(s, src, text, d) ==
    IF d.err # ""
    THEN /\ Returned(s, Flow(src, text, FALSE, d.err))
         /\ UNCHANGED adds
    ELSE IF HasDuplicates(d)
    THEN /\ Returned(s, Flow(src, text, FALSE, "duplicates"))
         /\ UNCHANGED adds
    ELSE AskAndAdd(s, src, text)

\* run_check_duplicates after _pre_check returned pc; ok and text are the
\* answers of the input dialog
PreChecked(pc, src) ==
    IF ~pc.ret
    THEN /\ Returned(pc.s, Flow(src, <<>>, FALSE, "pre-check failed"))
         /\ UNCHANGED adds
    ELSE \E ok \in BOOLEAN, text \in AppTexts(MaxPasteLines) :
            IF ~(ok /\ text # <<>>)
            THEN /\ Returned(pc.s, Flow(src, <<>>, FALSE, "no text"))
                 /\ UNCHANGED adds
            ELSE DuplicatesChecked(pc.s, src, text,
                    check_duplicates(pc.s.entries, text, DefaultThreshold))

\* the texts of bib_path_edit that a handler can read: _pre_check reads it
\* only when the record map is empty
PathsRead == IF bib_entries.keys = <<>> THEN Paths ELSE {<<>>}

\* run_check_duplicates() up to processEvents(), or to its end when
\* _pre_check does not reach that call
RunCheckDuplicates(path) ==
    \E pc \in {pre_check(AppState, path, FALSE, <<>>)} :
       IF pc.yield
       THEN Yield("run_check_duplicates", path)
       ELSE /\ PreChecked(pc, Source(path, NoSuchFile))
            /\ UNCHANGED pending

\* run_check_duplicates() from the return of processEvents() on
RunCheckDuplicatesResumed(file) ==
    /\ Resumes("run_check_duplicates", file)
    /\ PreChecked(PreCheckResumed(AppState, Source(Top.path, file), FALSE, <<>>),
                  Source(Top.path, file))

\* the path of the .tex file
TexPath == <<"t", "1">>

\* the texts of tex_path_edit and the documents there
TexSources ==
    {Source(<<>>, NoSuchDoc), Source(MissingPath, NoSuchDoc),
     Source(TexPath, Doc(TRUE, <<[cmd |-> "cite", pieces |-> << <<"a">> >>]>>)),
     Source(TexPath, Doc(TRUE, <<[cmd |-> "cite", pieces |-> << <<"c">> >>]>>))}

\* the try block of run_check_unreferenced_and_duplicates on the result r
\* of analyze_tex_citations: [err, val].  The records of _parse_and_store
\* are dicts, so the read of entry.fields raises AttributeError for the
\* first unreferenced key
UnreferencedReport(r) ==
    IF r.err # "" THEN [err |-> r.err, val |-> <<>>]
    ELSE IF r.val.unreferenced # <<>>
    THEN [err |-> "AttributeError", val |-> <<>>]
    ELSE [err |-> "",
          val |-> [unreferenced |-> r.val.unreferenced,
                   duplicates |-> r.val.duplicates]]

\* the try block of run_find_missing on the result r of
\* analyze_tex_citations: [err, val]
MissingReport(r) ==
    IF r.err # "" THEN [err |-> r.err, val |-> <<>>]
    ELSE [err |-> "", val |-> r.val.missing]

\* an analysis handler after _pre_check returned pc, r what its try block
\* gives
Analyzed(op, pc, src, tex, r) ==
    /\ IF ~pc.ret
       THEN Returned(pc.s, Report(op, src, tex, "pre-check failed", <<>>))
       ELSE Returned(pc.s, Report(op, src, tex, r.err, r.val))
    /\ UNCHANGED adds

\* run_check_unreferenced_and_duplicates() up to processEvents(), or to its
\* end when _pre_check does not reach that call
RunCheckUnreferencedAndDuplicates(path, tex) ==
    \E pc \in {pre_check(AppState, path, TRUE, tex.path)} :
       IF pc.yield
       THEN Yield("run_check_unreferenced_and_duplicates", path)
       ELSE /\ Analyzed("run_check_unreferenced_and_duplicates", pc,
                        Source(path, NoSuchFile), tex,
                        UnreferencedReport(
                            analyze_tex_citations(pc.s.entries, tex.file)))
            /\ UNCHANGED pending

\* run_check_unreferenced_and_duplicates() from the return of
\* processEvents() on
RunCheckUnreferencedAndDuplicatesResumed(file, tex) ==
    /\ Resumes("run_check_unreferenced_and_duplicates", file)
    /\ \E pc \in {PreCheckResumed(AppState, Source(Top.path, file), TRUE, tex.path)} :
          Analyzed("run_check_unreferenced_and_duplicates", pc,
                   Source(Top.path, file), tex,
                   UnreferencedReport(
                       analyze_tex_citations(pc.s.entries, tex.file)))

\* run_find_missing() up to processEvents(), or to its end when _pre_check
\* does not reach that call
RunFindMissing(path, tex) ==
    \E pc \in {pre_check(AppState, path, TRUE, tex.path)} :
       IF pc.yield
       THEN Yield("run_find_missing", path)
       ELSE /\ Analyzed("run_find_missing", pc, Source(path, NoSuchFile), tex,
                        MissingReport(
                            analyze_tex_citations(pc.s.entries, tex.file)))
            /\ UNCHANGED pending

\* run_find_missing() from the return of processEvents() on
RunFindMissingResumed(file, tex) ==
    /\ Resumes("run_find_missing", file)
    /\ \E pc \in {PreCheckResumed(AppState, Source(Top.path, file), TRUE, tex.path)} :
          Analyzed("run_find_missing", pc, Source(Top.path, file), tex,
                   MissingReport(
                       analyze_tex_citations(pc.s.entries, tex.file)))

Next ==
    \/ \E path \in Paths : LoadBibData(path)
    \/ \E file \in Files : LoadBibDataResumed(file)
    \/ \E text \in AppTexts(MaxPasteLines), accepted \in BOOLEAN,
          position \in 0..(Len(bib_entries_list) + 1) :
          AddNewEntry(text, accepted, position)
    \/ \E key \in Keys, confirmed \in BOOLEAN : DeleteEntry(key, confirmed)
    \/ \E key \in Keys : ShowEntryDetails(key)
    \/ SaveEntryChanges
    \/ SaveBibFile
    \/ \E chosen \in BOOLEAN : ExportBibFile(chosen)

\* the application
Spec == Init /\ [][Next]_vars

(***************************************************************************)
(* The invariants of the library, under Spec.                              *)
(***************************************************************************)
\* C1: after any sequence of load_bib_file, add_new_entry, delete_entry and
\* save_entry_changes the ordered key list, the record map and the
\* verbatim-text map have identical key sets.  The code does not keep this:
\* load_bib_file appends the key of a block to entry_order whether or not
\* the decoder accepted the block.
C1_KeySetsIdentical ==
    /\ Range(bib_entries_list) = DictKeys(bib_entries)
    /\ DictKeys(bib_entries) = DictKeys(original_entries)

\* C2: no key occurs more than once in the ordered key list.  The code does
\* not keep this: load_bib_file appends the key of every block, and
\* add_new_entry inserts the keys of the pasted text without looking at the
\* list.
C2_KeysUniqueInList == NoDup(bib_entries_list)

\* save_bib_file or export_bib_file has written a content
Wrote == call.op \in {"save_bib_file", "export_bib_file"} /\ call.err = ""

RECURSIVE Concatenation(_)
\* the concatenation of a sequence of texts
Concatenation(texts) ==
    IF texts = <<>> THEN <<>> ELSE Head(texts) \o Concatenation(Tail(texts))

\* the keys of the ordered list that have a verbatim text, in its order
KeysWithText ==
    SelectPos(bib_entries_list,
              {i \in DOMAIN bib_entries_list :
                  DictHas(original_entries, bib_entries_list[i])})

\* the number of places of a content at which a text followed by a blank
\* line stands
TimesWritten(content, text) ==
    Cardinality({p \in DOMAIN content :
                    /\ p + Len(text) <= Len(content)
                    /\ SubSeq(content, p, p + Len(text)) = Append(text, BlankLine)})

\* C13: save_bib_file and export_bib_file write the concatenation, in the
\* order of the ordered key list, of each record's verbatim text followed by
\* a blank line, and after any sequence of load, add, delete and edit every
\* record of the library is in the written content exactly once.  The code
\* does not keep the second part: the ordered key list can hold the key of
\* a record twice, and can lack the key of a record.
C13_WrittenContent ==
    Wrote =>
        /\ call.val = Concatenation([i \in DOMAIN KeysWithText |->
                           Append(original_entries.val[KeysWithText[i]], BlankLine)])
        /\ \A k \in DictKeys(bib_entries) :
              /\ DictHas(original_entries, k)
              /\ TimesWritten(call.val, original_entries.val[k]) = 1

\* C14: the verbatim-text map stays authoritative under edits: in every
\* state reached by save_entry_changes on a record of the library, the call
\* has succeeded and the verbatim text stored for the key is the
\* serialization of the key's record.  The code does not do this: the
\* records are dicts, their serialization raises, and the text stays the
\* block that was read from the source.
C14_VerbatimIsSerialization ==
    (call.op = "save_entry_changes" /\ Truthy(current_entry_key)
        /\ DictHas(bib_entries, current_entry_key))
    => /\ call.err = ""
       /\ to_string(bib_entries.val[current_entry_key]).err = ""
       /\ DictHas(original_entries, current_entry_key)
       /\ original_entries.val[current_entry_key]
              = to_string(bib_entries.val[current_entry_key]).text

\* C15: when save_entry_changes fails, the prior state is untouched: the
\* records and the verbatim texts are what they were before the call, and
\* so are the ordered key list and the current key.  The loop over
\* field_edits, which would assign to the record before the failure, has no
\* iteration: show_entry_details raises before it fills field_edits.
C15_FailureLeavesState ==
    [][(call'.op = "save_entry_changes" /\ call'.err # "")
        => /\ bib_entries' = bib_entries
           /\ original_entries' = original_entries
           /\ entry_order' = entry_order
           /\ bib_entries_list' = bib_entries_list
           /\ current_entry_key' = current_entry_key]_vars

\* save_entry_changes has failed to generate the text of a record that has
\* a verbatim text
C15_Witness ==
    /\ call.op = "save_entry_changes"
    /\ call.err = "Error generating BibTeX"
    /\ DictHas(bib_entries, current_entry_key)
    /\ DictHas(original_entries, current_entry_key)
    /\ original_entries.val[current_entry_key] # <<>>

\* C16: when the load of a bibliography file fails because the path does
\* not exist, the prior state is untouched: the record map, the
\* verbatim-text map, the ordered key list and the current bibliography file
\* path of the application are unchanged.  The code does not keep the last:
\* load_bib_data stores the path before it calls load_bib_file.
C16_FailedLoadLeavesState ==
    [][(call'.op = "load_bib_data" /\ call'.err = NotFound)
        => /\ bib_entries' = bib_entries
           /\ original_entries' = original_entries
           /\ entry_order' = entry_order
           /\ bib_entries_list' = bib_entries_list
           /\ bib_file_path' = bib_file_path]_vars

\* the last call that returned was a load_bib_data whose load_bib_file
\* returned
LoadSucceeded ==
    /\ call.op = "load_bib_data"
    /\ call.err \notin {"no path", NotFound}

\* C26: a successful load_bib_file replaces the library: the record map, the
\* verbatim-text map and the ordered key list hold exactly what the scan of
\* the loaded file yields, and nothing of the file loaded before or of the
\* earlier additions and deletions remains.
C26_LoadReplacesLibrary ==
    LoadSucceeded =>
        /\ bib_entries = LoadScan(call.arg.lines).lib.entries
        /\ original_entries = LoadScan(call.arg.lines).lib.original
        /\ entry_order = LoadScan(call.arg.lines).order
        /\ bib_entries_list = LoadScan(call.arg.lines).order

\* a load after an addition: the file has the one entry b, and b is all that
\* the library and the list hold
C26_Witness ==
    /\ LoadSucceeded
    /\ adds = 1
    /\ call.arg.lines = <<Line("one", <<"b">>, 2)>>
    /\ bib_entries.keys = << <<"b">> >>
    /\ original_entries.keys = << <<"b">> >>
    /\ bib_entries_list = << <<"b">> >>

\* the dict d without the key k: the other keys in their order, with their
\* values
Without(d, k) ==
    [keys |-> SelectSeq(d.keys, LAMBDA x : x # k),
     val |-> [x \in DictKeys(d) \ {k} |-> d.val[x]]]

\* no place of the list writes the text into the content of a save or of an
\* export
NotWritten(text, list, original) ==
    \A i \in DOMAIN list :
       DictHas(original, list[i]) => original.val[list[i]] # text

\* C30: a confirmed delete_entry(k) for a key k of the record map removes k
\* from the record map, the verbatim-text map and the ordered key list, so
\* that the text of k is in no later save or export, and leaves every other
\* key's record, verbatim text and relative order as they were; a declined
\* delete, and a delete of a key that the record map does not have, change
\* nothing.  The code does not keep this: list.remove takes out only the
\* first place of k, and a list that load_bib_file built has one place for
\* every block of the key.
C30_DeleteRemovesOnlyKey ==
    [][(call'.op = "delete_entry" /\ pending' = pending) =>
         IF call'.arg.confirmed /\ DictHas(bib_entries, call'.arg.key)
         THEN /\ bib_entries' = Without(bib_entries, call'.arg.key)
              /\ original_entries' = Without(original_entries, call'.arg.key)
              /\ bib_entries_list' =
                     SelectSeq(bib_entries_list, LAMBDA x : x # call'.arg.key)
              /\ DictHas(original_entries, call'.arg.key)
                    => NotWritten(original_entries.val[call'.arg.key],
                                  bib_entries_list', original_entries')
         ELSE UNCHANGED <<bib_entries, original_entries, entry_order,
                          bib_entries_list, shared, bib_file_path,
                          current_entry_key, adds>>]_vars

(***************************************************************************)
(* add_new_entry on its own: at most one load, then additions of texts of *)
(* several entries.                                                        *)
(***************************************************************************)
NextAdd ==
    \/ call.op = "init" /\ pending = <<>> /\ LoadBibData(GoodPath)
    \/ \E text \in AppTexts(MaxFileLines) : LoadBibDataResumed(File(TRUE, text))
    \/ \E text \in AppTexts(MaxAddLines), accepted \in BOOLEAN,
          position \in 0..(Len(bib_entries_list) + 1) :
          AddNewEntry(text, accepted, position)

SpecAdd == Init /\ [][NextAdd]_vars

\* the step is an add_new_entry that stored the entries of its text
AddStep == call'.op = "add_new_entry" /\ adds' = adds + 1

\* the number of existing keys before the place that the InsertDialog
\* names: 0 for "At the beginning", i for "After: <i-th entry>", all of them
\* for "At the end"
KeysBefore(list, position) ==
    IF position = 0 THEN 0
    ELSE IF position = Len(list) + 1 THEN Len(list)
    ELSE position

\* new_keys is one contiguous run of `after`, behind the first q keys of
\* list, and the keys of list are around it in their order
RunAt(list, after, new_keys, q) ==
    /\ Len(after) = Len(list) + Len(new_keys)
    /\ \A j \in 1..Len(new_keys) : after[q + j] = new_keys[j]
    /\ \A j \in 1..q : after[j] = list[j]
    /\ \A j \in (q + 1)..Len(list) : after[j + Len(new_keys)] = list[j]

\* C29: add_new_entry inserts the new keys as one contiguous run at the
\* chosen position of the ordered key list: before all existing keys for
\* "At the beginning", immediately after the i-th existing key for "After:
\* <i-th entry>", after all existing keys for "At the end"; the existing
\* keys keep their relative order.
C29_InsertedAtChosenPosition ==
    [][AddStep =>
         RunAt(bib_entries_list, bib_entries_list',
               parse_bib_string(call'.arg.text).entries.keys,
               KeysBefore(bib_entries_list, call'.arg.position))]_vars

\* an add_new_entry of the entries b and a after the first of the two
\* existing keys a and b
C29_Witness ==
    /\ call.op = "add_new_entry"
    /\ call.err \notin {ParseFailed, "could not parse", "cancelled"}
    /\ call.arg.position = 1
    /\ call.arg.text = <<Line("one", <<"b">>, 2), Line("one", <<"a">>, 1)>>
    /\ bib_entries_list = << <<"a">>, <<"b">>, <<"a">>, <<"b">> >>

(***************************************************************************)
(* The duplicate-check flow among loads and deletions.                     *)
(***************************************************************************)
NextFlow ==
    \/ \E path \in Paths : LoadBibData(path)
    \/ \E file \in Files : LoadBibDataResumed(file)
    \/ \E key \in Keys : DeleteEntry(key, TRUE)
    \/ \E path \in PathsRead : RunCheckDuplicates(path)
    \/ \E file \in Files : RunCheckDuplicatesResumed(file)

SpecFlow == Init /\ [][NextFlow]_vars

\* the step is a duplicate-check flow that returns: one that has found the
\* record map filled or bib_path_edit empty, or the rest of one that has
\* waited in processEvents()
FlowStep == call'.op = "run_check_duplicates" /\ Len(pending') <= Len(pending)

\* the flow ended with a match reported or with check_duplicates raising
MatchOrFailure ==
    call'.err \in {"duplicates", NotLoaded, ParseFailed}

\* the value of s is the library and the list after the step
IsStateAfter(s) ==
    /\ bib_entries' = s.entries
    /\ original_entries' = s.original
    /\ bib_entries_list' = s.list

\* the library and the list that _pre_check left in the flow of the step
AfterPreCheck ==
    IF pending' = pending THEN AppState
    ELSE LoadResumed(AppState, call'.arg.src).s

\* a flow that did more than its _pre_check has stored the entries of the
\* pasted text at a position of the list, after check_duplicates returned
\* no match for that text and the user said yes
AddedOnlyWhenClear ==
    ~IsStateAfter(AfterPreCheck)
       => /\ call'.arg.reply
          /\ check_duplicates(AfterPreCheck.entries, call'.arg.text,
                              DefaultThreshold) = [err |-> "", val |-> <<>>]
          /\ \E position \in 0..(Len(AfterPreCheck.list) + 1) :
                IsStateAfter(AddedState(AfterPreCheck,
                                        parse_bib_string(call'.arg.text),
                                        position))

\* C28: in the duplicate-check flow the pasted entries are added to the
\* library only after check_duplicates returned no match for that text and
\* the user said yes; when check_duplicates reports a match or fails, the
\* library and the ordered key list are unchanged by the flow.  The code
\* does not keep the second part: the flow begins with _pre_check, which
\* loads the file when the record map is empty, and load_bib_file appends
\* the key of a block to entry_order whether or not the decoder accepted
\* the block.  On a file whose blocks are all rejected the record map stays
\* empty, load_bib_data returns True, check_duplicates raises its
\* not-loaded error, and the ordered key list has gained the keys of the
\* file.
C28_FlowAddsOnlyWhenClear ==
    [][FlowStep =>
         /\ AddedOnlyWhenClear
         /\ (MatchOrFailure
               => UNCHANGED <<bib_entries, original_entries,
                              bib_entries_list>>)]_vars

(***************************************************************************)
(* The two analyses of the .tex file among loads and deletions.            *)
(***************************************************************************)
NextTex ==
    \/ \E path \in Paths : LoadBibData(path)
    \/ \E file \in Files : LoadBibDataResumed(file)
    \/ \E key \in Keys : DeleteEntry(key, TRUE)
    \/ \E path \in PathsRead, tex \in TexSources :
          RunCheckUnreferencedAndDuplicates(path, tex)
    \/ \E file \in Files, tex \in TexSources :
          RunCheckUnreferencedAndDuplicatesResumed(file, tex)
    \/ \E path \in PathsRead, tex \in TexSources : RunFindMissing(path, tex)
    \/ \E file \in Files, tex \in TexSources : RunFindMissingResumed(file, tex)

SpecTex == Init /\ [][NextTex]_vars

(***************************************************************************)
(* The parser on its own: one call of load_bib_file or parse_bib_string on *)
(* a new ReferenceChecker.  Neither reads the library: load_bib_file       *)
(* replaces it and parse_bib_string is a function of its text.             *)
(***************************************************************************)
\* no call has been made on the checker
Fresh == call.op = "init"

NextParse ==
    \/ Fresh /\ LoadBibFile(NoSuchFile)
    \/ Fresh /\ \E text \in Texts(MaxLines) : LoadBibFile(File(TRUE, text))
    \/ Fresh /\ \E text \in Texts(MaxLines) : ParseBibString(text)

SpecParse == Init /\ [][NextParse]_vars

\* the keys of the entries that the decoder reads from the blocks it accepts
DecodedKeys(blocks) ==
    UNION {{Decode(blocks[i].block).entries[j].key :
               j \in DOMAIN Decode(blocks[i].block).entries} : i \in DOMAIN blocks}

\* the decoder rejects one of the blocks
SomeRejected(blocks) == \E i \in DOMAIN blocks : ~Decode(blocks[i].block).ok

\* C8, as stated: parse_bib_string raises the parse error for every
\* non-empty text from which no record is decoded.  Text of blank lines
\* only is not empty, and parse_bib_string returns the empty pair for it.
C8_RaisesForNonEmptyText ==
    (call.op = "parse_bib_string" /\ call.arg # <<>>
        /\ DecodedKeys(ParseScan(call.arg).blocks) = {})
    => call.err = ParseFailed

\* C8, amended: parse_bib_string raises the parse error for every text that
\* is not blank and from which no record is decoded, and never returns the
\* empty pair for such a text; for blank text it returns the empty pair.
C8_RaisesForNonBlankText ==
    call.op = "parse_bib_string" =>
        IF IsBlankText(call.arg)
        THEN call.err = "" /\ call.val = EmptyLib
        ELSE /\ DecodedKeys(ParseScan(call.arg).blocks) = {} => call.err = ParseFailed
             /\ call.err = "" => call.val.entries.keys # <<>>

\* a text with a block, none decoded, has been parsed
C8_Witness ==
    /\ call.op = "parse_bib_string"
    /\ ParseScan(call.arg).blocks # <<>>
    /\ DecodedKeys(ParseScan(call.arg).blocks) = {}
    /\ call.err = ParseFailed

\* C9: parse_bib_string is all-or-nothing: if the decoder rejects a block of
\* the text the call fails, and when it returns, the two maps have the same
\* keys and cover every block of the text.  The code does not do this:
\* _parse_and_store swallows the rejection and the other blocks are returned.
C9_AllOrNothing ==
    call.op = "parse_bib_string" =>
        /\ SomeRejected(ParseScan(call.arg).blocks) => call.err # ""
        /\ call.err = "" =>
              /\ DictKeys(call.val.entries) = DictKeys(call.val.original)
              /\ \A i \in DOMAIN ParseScan(call.arg).blocks :
                    DictHas(call.val.entries, ParseScan(call.arg).blocks[i].key)

\* C10: load_bib_file is lenient per block: it returns although the decoder
\* rejects a block, and the entries of every block that the decoder accepts
\* are in the record map and in the verbatim-text map, and no others.
C10_LoadLenientPerBlock ==
    (call.op = "load_bib_file" /\ call.arg.exists) =>
        /\ call.err = ""
        /\ DictKeys(bib_entries) = DecodedKeys(LoadScan(call.arg.lines).blocks)
        /\ DictKeys(original_entries) = DecodedKeys(LoadScan(call.arg.lines).blocks)

\* a file with a block that the decoder rejects and one that it accepts has
\* been loaded
C10_Witness ==
    /\ call.op = "load_bib_file" /\ call.arg.exists
    /\ SomeRejected(LoadScan(call.arg.lines).blocks)
    /\ bib_entries.keys # <<>>
    /\ call.val = Len(bib_entries.keys)

\* the places of the lines that start with the '@' marker, ascending
Starts(lines) ==
    SelectPos([i \in DOMAIN lines |-> i], {i \in DOMAIN lines : StartsWithAt(lines[i])})

\* the lines from the n-th start up to the next start or to the end
Segment(lines, n) ==
    SubSeq(lines, Starts(lines)[n],
           IF n < Len(Starts(lines)) THEN Starts(lines)[n + 1] - 1 ELSE Len(lines))

RECURSIVE BraceSum(_)
\* the opening braces of some lines less their closing braces
BraceSum(lines) ==
    IF lines = <<>> THEN 0 ELSE BraceDelta(Head(lines)) + BraceSum(Tail(lines))

\* the text is made of well-formed records: before the first start the lines
\* are blank; every start has a key that the key pattern matches; and the
\* lines from a start to the next hold one record that the decoder reads,
\* with balanced braces
WellFormedInput(lines) ==
    /\ \A i \in DOMAIN lines :
          (\A n \in DOMAIN Starts(lines) : i < Starts(lines)[n]) => lines[i].t = "blank"
    /\ \A n \in DOMAIN Starts(lines) :
          /\ KeyMatch(lines[Starts(lines)[n]]).found
          /\ Truthy(KeyMatch(lines[Starts(lines)[n]]).key)
          /\ Decode(Segment(lines, n)).ok
          /\ Len(Decode(Segment(lines, n)).entries) = 1
          /\ Decode(Segment(lines, n)).entries[1].key = KeyMatch(lines[Starts(lines)[n]]).key
          /\ BraceSum(Segment(lines, n)) = 0

\* the keys of the records of a text in source order
SourceKeys(lines) ==
    [n \in DOMAIN Starts(lines) |-> KeyMatch(lines[Starts(lines)[n]]).key]

\* the blocks are those of the records of the text, one each, in source order
BlocksOfRecords(blocks, lines) ==
    /\ Len(blocks) = Len(Starts(lines))
    /\ \A n \in DOMAIN blocks :
          /\ blocks[n].key = SourceKeys(lines)[n]
          /\ blocks[n].block = Segment(lines, n)

\* C11: for a text made of N well-formed records, each starting on its own
\* line with the '@' marker, with a key that the key pattern matches and
\* balanced braces, and no other line starting with '@', the scanner of
\* load_bib_file and that of parse_bib_string emit exactly N blocks, in
\* source order, and entry_order of load_bib_file lists the N keys in source
\* order.
C11_ScannerBlocksInOrder ==
    /\ (call.op = "load_bib_file" /\ call.arg.exists /\ WellFormedInput(call.arg.lines))
       => /\ BlocksOfRecords(LoadScan(call.arg.lines).blocks, call.arg.lines)
          /\ entry_order = SourceKeys(call.arg.lines)
    /\ (call.op = "parse_bib_string" /\ WellFormedInput(call.arg))
       => BlocksOfRecords(ParseScan(call.arg).blocks, call.arg)

\* a file of two records has been loaded, the first on one line and the
\* second on two, in the order b, a
C11_Witness ==
    /\ call.op = "load_bib_file" /\ call.arg.exists
    /\ WellFormedInput(call.arg.lines)
    /\ Len(Starts(call.arg.lines)) = 2
    /\ Len(call.arg.lines) = 3
    /\ entry_order = << <<"b">>, <<"a">> >>

\* C12: round trip: the library produced by parsing a text, written as its
\* verbatim blocks in the order of its keys, each followed by a blank line,
\* and parsed again, has the same set of keys.  For load_bib_file the order
\* is entry_order, the order in which save_bib_file writes; for
\* parse_bib_string it is the order of the returned verbatim-text map.  The
\* code does not keep this: entry_order holds the key that the scanner read
\* from a block, not the keys of the entries decoded from it, so the block of
\* an entry stored under another key is not written.
C12_RoundTripKeys ==
    /\ (call.op = "load_bib_file" /\ call.arg.exists)
       => DictKeys(LoadScan(new_content(entry_order, original_entries)).lib.entries)
              = DictKeys(bib_entries)
    /\ (call.op = "parse_bib_string" /\ call.err = "")
       => DictKeys(parse_bib_string(
                       new_content(call.val.original.keys, call.val.original)).entries)
              = DictKeys(call.val.entries)

\* the locals of the scan of load_bib_file before line i of the text
LoadBefore(lines, i) == LoadLoop(ScanStart, SubSeq(lines, 1, i - 1))

\* the locals of the scan of parse_bib_string before line i of the text
ParseBefore(lines, i) == ParseLoop(ScanStart, SubSeq(lines, 1, i - 1))

\* line l starts with '@' while the block of st has lines and its brace
\* depth is not zero
StartInsideBlock(st, l) == StartsWithAt(l) /\ st.block # <<>> /\ st.count # 0

\* after line l the block is the block of st with l at its end, and nothing
\* was flushed
BlockContinues(st, after, l) ==
    /\ after.block = Append(st.block, l)
    /\ after.blocks = st.blocks

\* C21: a line that starts with '@' while the brace depth of the current
\* block is not zero does not terminate the block: the lines accumulated so
\* far stay in the block, and the line goes into it and begins no new block.
\* The code does not do this: it skips the flush but resets the block, so
\* the accumulated lines are lost and the line begins a new block.
C21_StartInsideBlockContinues ==
    /\ (call.op = "load_bib_file" /\ call.arg.exists)
       => \A i \in DOMAIN call.arg.lines :
             StartInsideBlock(LoadBefore(call.arg.lines, i), call.arg.lines[i])
             => BlockContinues(LoadBefore(call.arg.lines, i),
                               LoadBefore(call.arg.lines, i + 1), call.arg.lines[i])
    /\ call.op = "parse_bib_string"
       => \A i \in DOMAIN call.arg :
             StartInsideBlock(ParseBefore(call.arg, i), call.arg[i])
             => BlockContinues(ParseBefore(call.arg, i),
                               ParseBefore(call.arg, i + 1), call.arg[i])

\* the locals of the scan of load_bib_file once the block that begins at the
\* n-th start line has been dealt with: after the next start line, or at
\* the end
LoadAfterBlock(lines, n) ==
    IF n < Len(Starts(lines)) THEN LoadBefore(lines, Starts(lines)[n + 1] + 1)
    ELSE LoadScan(lines)

\* the same for parse_bib_string
ParseAfterBlock(lines, n) ==
    IF n < Len(Starts(lines)) THEN ParseBefore(lines, Starts(lines)[n + 1] + 1)
    ELSE ParseScan(lines)

\* nothing was stored or emitted between two points of a scan
NothingStored(st, after) ==
    /\ after.blocks = st.blocks
    /\ after.lib = st.lib
    /\ after.order = st.order

\* C23: a block whose start line yields no key under the key pattern is
\* dropped, before the first keyed record as well as after one: no record
\* and no verbatim text is stored for it and no key is appended to
\* entry_order.  The code does not do this after a keyed record: the key of
\* that record is still the current key, and the block is emitted under it.
C23_KeylessBlockDropped ==
    /\ (call.op = "load_bib_file" /\ call.arg.exists)
       => \A n \in DOMAIN Starts(call.arg.lines) :
             ~KeyMatch(call.arg.lines[Starts(call.arg.lines)[n]]).found
             => NothingStored(LoadBefore(call.arg.lines, Starts(call.arg.lines)[n] + 1),
                              LoadAfterBlock(call.arg.lines, n))
    /\ call.op = "parse_bib_string"
       => \A n \in DOMAIN Starts(call.arg) :
             ~KeyMatch(call.arg[Starts(call.arg)[n]]).found
             => NothingStored(ParseBefore(call.arg, Starts(call.arg)[n] + 1),
                              ParseAfterBlock(call.arg, n))

\* the block that is pending at the end of the input has a line that is not
\* blank, and a key has been captured
PendingAtEnd(st) == StripBlock(st.block) # <<>> /\ Truthy(st.key)

\* the pending block of st is the last of the blocks
FlushedLast(st, blocks) ==
    blocks = Append(st.blocks, [key |-> st.key, block |-> st.block])

\* C24: at the end of the input a pending block with non-blank content and
\* a captured key is flushed as the final block, whatever its brace depth;
\* load_bib_file appends its key to entry_order.
C24_PendingBlockFlushed ==
    /\ (call.op = "load_bib_file" /\ call.arg.exists
           /\ PendingAtEnd(LoadLoop(ScanStart, call.arg.lines)))
       => /\ FlushedLast(LoadLoop(ScanStart, call.arg.lines),
                         LoadScan(call.arg.lines).blocks)
          /\ entry_order = Append(LoadLoop(ScanStart, call.arg.lines).order,
                                  LoadLoop(ScanStart, call.arg.lines).key)
    /\ (call.op = "parse_bib_string" /\ PendingAtEnd(ParseLoop(ScanStart, call.arg)))
       => FlushedLast(ParseLoop(ScanStart, call.arg), ParseScan(call.arg).blocks)

\* a file has been loaded whose last block ends at a brace depth that is not
\* zero, after another block; the decoder has read its entry
C24_Witness ==
    /\ call.op = "load_bib_file" /\ call.arg.exists
    /\ PendingAtEnd(LoadLoop(ScanStart, call.arg.lines))
    /\ LoadLoop(ScanStart, call.arg.lines).count # 0
    /\ LoadLoop(ScanStart, call.arg.lines).blocks # <<>>
    /\ Len(entry_order) = 2
    /\ DictHas(bib_entries, entry_order[2])
    /\ Len(original_entries.val[entry_order[2]]) = 2

\* C27: the two copies of the block scanner agree: for every text from which
\* at least one record is decoded, load_bib_file and parse_bib_string give
\* the same record map and the same verbatim-text map.
C27_ScannersAgree ==
    /\ (call.op = "load_bib_file" /\ call.err = ""
          /\ (bib_entries.keys # <<>>
                \/ ParseScan(call.arg.lines).lib.entries.keys # <<>>))
       => /\ parse_bib_string(call.arg.lines).err = ""
          /\ parse_bib_string(call.arg.lines).entries = bib_entries
          /\ parse_bib_string(call.arg.lines).original = original_entries
    /\ (call.op = "parse_bib_string"
          /\ (call.val.entries.keys # <<>>
                \/ LoadScan(call.arg).lib.entries.keys # <<>>))
       => /\ call.err = ""
          /\ call.val.entries = LoadScan(call.arg).lib.entries
          /\ call.val.original = LoadScan(call.arg).lib.original

\* a load that stored a record from a text whose first line starts with '@'
\* and gives no key: load_bib_file has begun a block after that line,
\* parse_bib_string has not
C27_Witness ==
    /\ call.op = "load_bib_file" /\ call.err = ""
    /\ Len(call.arg.lines) >= 2
    /\ LoadBefore(call.arg.lines, 2).block # <<>>
    /\ ParseBefore(call.arg.lines, 2).block = <<>>
    /\ bib_entries.keys # <<>>

(***************************************************************************)
(* Citations: at most one load of a library, then one query.               *)
(***************************************************************************)
\* the raw pieces of a citation argument: the text between two commas; the
\* split of an argument has at least one piece
Pieces == {<<>>, <<"a">>, <<" ", "a">>, <<"a", "\t">>, <<"c">>}

\* \cite{...} and \citep{...} with every argument, and one \citet{a}
Commands(n) ==
    {[cmd |-> c, pieces |-> ps] : c \in {"cite", "citep"},
                                  ps \in SeqsUpTo(Pieces, n) \ {<<>>}}
    \cup {[cmd |-> "citet", pieces |-> << <<"a">> >>]}

\* the documents of at most n commands, each of at most m pieces
Docs(n, m) ==
    {Doc(TRUE, cmds) : cmds \in SeqsUpTo(Commands(m), n)} \cup {NoSuchDoc}

\* a load has been the only call so far
Loaded == call.op = "load_bib_file"

NextCite ==
    \/ Fresh /\ LoadBibFile(NoSuchFile)
    \/ Fresh /\ \E text \in AppTexts(MaxFileLines) : LoadBibFile(File(TRUE, text))
    \/ Fresh /\ \E doc \in Docs(MaxCmds, MaxPieces) : ExtractCitationsFromTex(doc)
    \/ (Fresh \/ Loaded) /\ \E doc \in Docs(MaxCmds, MaxPieces) : AnalyzeTexCitations(doc)
    \/ (Fresh \/ Loaded) /\ \E text \in AppTexts(MaxPasteLines) \cup {<<Line("blank", <<>>, 0)>>} :
                               CheckDuplicates(text, DefaultThreshold)

SpecCite == Init /\ [][NextCite]_vars

\* a sequence of strings in strictly ascending order
Ascending(s) == \A i, j \in DOMAIN s : i < j => StrLess(s[i], s[j])

\* the places of the pieces of the matched commands of a document: command
\* and place in its argument
Places(cmds) ==
    UNION {{<<i, j>> : j \in DOMAIN cmds[i].pieces} :
              i \in {n \in DOMAIN cmds : cmds[n].cmd \in {"cite", "citep"}}}

\* the occurrences of key k: the places whose piece is k once stripped
Occurrences(cmds, k) ==
    {p \in Places(cmds) : Strip(cmds[p[1]].pieces[p[2]]) = k}

\* the keys with an occurrence; a piece that strips to "" is no key
Cited(cmds) ==
    {Strip(cmds[p[1]].pieces[p[2]]) : p \in Places(cmds)} \ {<<>>}

\* C3: for a non-empty library analyze_tex_citations returns unreferenced,
\* the library keys that are not cited, and missing, the cited keys that are
\* not in the library, each in ascending order, and duplicates, the
\* duplicated map of the extractor unchanged.
C3_AnalyzeResult ==
    (call.op = "analyze_tex_citations" /\ bib_entries.keys # <<>> /\ call.arg.exists)
    => /\ call.err = ""
       /\ Range(call.val.unreferenced) =
              DictKeys(bib_entries) \ extract_citations_from_tex(call.arg).cited_keys
       /\ Ascending(call.val.unreferenced)
       /\ Range(call.val.missing) =
              extract_citations_from_tex(call.arg).cited_keys \ DictKeys(bib_entries)
       /\ Ascending(call.val.missing)
       /\ call.val.duplicates = extract_citations_from_tex(call.arg).duplicated

\* an analysis with two unreferenced keys that the library holds in
\* descending order, a missing key and a duplicated one
C3_Witness ==
    /\ call.op = "analyze_tex_citations" /\ call.err = ""
    /\ Len(call.val.unreferenced) = 2
    /\ ~Ascending(bib_entries.keys)
    /\ call.val.missing # <<>>
    /\ DOMAIN call.val.duplicates # {}

\* C4: extract_citations_from_tex returns cited_keys, the distinct keys of
\* all matched commands, and duplicated, the map from the keys that occur
\* more than once in all to their number of occurrences, whether the
\* occurrences are in one command or in several.
C4_ExtractResult ==
    (call.op = "extract_citations_from_tex" /\ call.arg.exists)
    => /\ call.err = ""
       /\ call.val.cited_keys = Cited(call.arg.cmds)
       /\ DOMAIN call.val.duplicated =
              {k \in Cited(call.arg.cmds) :
                  Cardinality(Occurrences(call.arg.cmds, k)) > 1}
       /\ \A k \in DOMAIN call.val.duplicated :
              call.val.duplicated[k] = Cardinality(Occurrences(call.arg.cmds, k))

\* an extraction from a document of one command that cites a key twice
C4_Witness ==
    /\ call.op = "extract_citations_from_tex" /\ call.arg.exists
    /\ Len(call.arg.cmds) = 1
    /\ \E k \in call.val.cited_keys :
          k \in DOMAIN call.val.duplicated /\ call.val.duplicated[k] = 2

\* C7: with an empty library check_duplicates fails with the not-loaded
\* error for every candidate text, also one that does not parse, and
\* analyze_tex_citations for every document, also one that does not exist.
C7_NotLoadedFirst ==
    (call.op \in {"check_duplicates", "analyze_tex_citations"}
        /\ bib_entries.keys = <<>>)
    => call.err = NotLoaded

\* with an empty library, check_duplicates has been called with a text that
\* parse_bib_string rejects
C7_Witness ==
    /\ call.op = "check_duplicates"
    /\ bib_entries.keys = <<>>
    /\ call.arg.text # <<>> /\ ~IsBlankText(call.arg.text)
    /\ DecodedKeys(ParseScan(call.arg.text).blocks) = {}
    /\ call.err = NotLoaded

\* C17: analyze_tex_citations and check_duplicates do not change the
\* library: the record map, the verbatim-text map and the ordered key list
\* are after the call what they were before it, whether the call returns or
\* fails.
C17_QueriesLeaveLibrary ==
    [][call'.op \in {"check_duplicates", "analyze_tex_citations"}
        => /\ bib_entries' = bib_entries
           /\ original_entries' = original_entries
           /\ entry_order' = entry_order]_vars

\* check_duplicates has returned for a candidate text with a record that is
\* not in the library, of which the library has no trace
C17_Witness ==
    /\ call.op = "check_duplicates" /\ call.err = ""
    /\ bib_entries.keys # <<>>
    /\ \E k \in DictKeys(parse_bib_string(call.arg.text).entries) :
          /\ ~DictHas(bib_entries, k)
          /\ ~DictHas(original_entries, k)
          /\ k \notin Range(entry_order)

Reverse(s) == [i \in DOMAIN s |-> s[Len(s) + 1 - i]]

\* the library with its keys inserted in the opposite order
ReversedLibrary(d) == [keys |-> Reverse(d.keys), val |-> d.val]

\* the document with its commands, and the keys of each, in the opposite
\* order
ReversedDoc(doc) ==
    Doc(doc.exists,
        Reverse([i \in DOMAIN doc.cmds |->
                    [cmd |-> doc.cmds[i].cmd, pieces |-> Reverse(doc.cmds[i].pieces)]]))

\* C18: a second call of analyze_tex_citations on the unchanged library and
\* document returns what the first returned, and the unreferenced and
\* missing lists are the same for the library with its keys inserted in
\* another order and for the document with its keys cited in another order.
C18_AnalysisDeterministic ==
    call.op = "analyze_tex_citations" =>
        /\ analyze_tex_citations(bib_entries, call.arg).err = call.err
        /\ analyze_tex_citations(bib_entries, call.arg).val = call.val
        /\ \A lib \in {bib_entries, ReversedLibrary(bib_entries)},
              doc \in {call.arg, ReversedDoc(call.arg)} :
              /\ analyze_tex_citations(lib, doc).err = call.err
              /\ analyze_tex_citations(lib, doc).val.unreferenced
                     = call.val.unreferenced
              /\ analyze_tex_citations(lib, doc).val.missing = call.val.missing

\* an analysis of a library of two keys, one of them unreferenced, and of a
\* document that cites a key of the library and a missing key, which reads
\* differently in the opposite order
C18_Witness ==
    /\ call.op = "analyze_tex_citations" /\ call.err = ""
    /\ Len(bib_entries.keys) = 2
    /\ ReversedLibrary(bib_entries) # bib_entries
    /\ call.val.unreferenced # <<>>
    /\ call.val.missing # <<>>
    /\ AllKeys(ReversedDoc(call.arg).cmds) # AllKeys(call.arg.cmds)

\* a key is not the empty string and has no whitespace at either end
Trimmed(k) == k # <<>> /\ k[1] \notin SpaceChars /\ k[Len(k)] \notin SpaceChars

\* C25: no key that extract_citations_from_tex returns, in cited_keys or in
\* duplicated, is the empty string or has leading or trailing whitespace;
\* the empty pieces of an argument are discarded and not counted.
C25_KeysTrimmed ==
    call.op = "extract_citations_from_tex" =>
        /\ \A k \in call.val.cited_keys : Trimmed(k)
        /\ \A k \in DOMAIN call.val.duplicated : Trimmed(k)
        /\ DOMAIN call.val.duplicated \subseteq call.val.cited_keys

\* an extraction from a document with two empty pieces, a piece with leading
\* and a piece with trailing whitespace
C25_Witness ==
    /\ call.op = "extract_citations_from_tex" /\ call.arg.exists
    /\ \E i \in DOMAIN call.arg.cmds :
          /\ call.arg.cmds[i].cmd = "cite"
          /\ call.arg.cmds[i].pieces = << <<>>, <<>> >>
    /\ \E i \in DOMAIN call.arg.cmds :
          /\ call.arg.cmds[i].cmd = "citep"
          /\ call.arg.cmds[i].pieces = << <<" ", "a">>, <<"a", "\t">> >>
    /\ call.val.cited_keys = {<<"a">>}
    /\ call.val.duplicated[<<"a">>] = 2

(***************************************************************************)
(* The duplicate check: at most one load of a library, then one check.     *)
(***************************************************************************)
\* one line per record of DupRecIds, under one of the two keys
DupLines ==
    {Line("one", <<"a">>, 1), Line("one", <<"a">>, 2), Line("one", <<"b">>, 3),
     Line("one", <<"a">>, 4), Line("one", <<"b">>, 5)}

\* the texts of at most n lines of the duplicate check
DupTexts(n) == SeqsUpTo(DupLines, n)

Thresholds == {[num |-> 1, den |-> 2], DefaultThreshold}

NextDup ==
    \/ Fresh /\ LoadBibFile(NoSuchFile)
    \/ Fresh /\ \E text \in DupTexts(MaxLib) : LoadBibFile(File(TRUE, text))
    \/ (Fresh \/ Loaded) /\ \E text \in DupTexts(MaxCand), threshold \in Thresholds :
                               CheckDuplicates(text, threshold)

SpecDup == Init /\ [][NextDup]_vars

\* the three similarities of candidate record u and library record e as
\* check_duplicates computes them, from the records that _parse_and_store
\* has stored
TitleScore(u, e) == Ratio(u.title, e.title)

YearScore(u, e) == Ratio(u.year, e.year)

AuthorScore(u, e) == Ratio(u.author, e.author)

\* the places in the library of the records that candidate record u matches
\* at the threshold: title similarity at least the threshold, year and
\* author similarity above 3/10
Hits(u, threshold) ==
    {i \in DOMAIN bib_entries.keys :
        LET e == bib_entries.val[bib_entries.keys[i]]
        IN /\ TitleScore(u, e).num * threshold.den
                  >= threshold.num * TitleScore(u, e).den
           /\ YearScore(u, e).num * 10 > 3 * YearScore(u, e).den
           /\ AuthorScore(u, e).num * 10 > 3 * AuthorScore(u, e).den}

\* the candidate records of the last call of check_duplicates
Candidates == parse_bib_string(call.arg.text).entries

\* a check that returned
Checked == call.op = "check_duplicates" /\ call.err = ""

\* C5: check_duplicates reports, per candidate record, at most one match,
\* with the first record in the order of the library that satisfies the
\* acceptance condition, whatever the title score of a later one; the
\* matches are in the order of the candidates.
C5_FirstMatch ==
    Checked =>
        LET t == call.arg.threshold
            matched == SelectPos(Candidates.keys,
                          {i \in DOMAIN Candidates.keys :
                              Hits(Candidates.val[Candidates.keys[i]], t) # {}})
        IN /\ Len(call.val) = Len(matched)
           /\ \A n \in DOMAIN call.val :
                 LET hits == Hits(Candidates.val[matched[n]], t)
                 IN /\ call.val[n].user_key = matched[n]
                    /\ \E i \in hits :
                          /\ \A j \in hits : i <= j
                          /\ call.val[n].existing_key = bib_entries.keys[i]

\* a check in which a candidate matches two library records, the second
\* with the higher title score, and the first is reported
C5_Witness ==
    /\ Checked
    /\ \E n \in DOMAIN call.val :
          LET u == Candidates.val[call.val[n].user_key]
              e1 == bib_entries.val[bib_entries.keys[1]]
              e2 == bib_entries.val[bib_entries.keys[2]]
          IN /\ Hits(u, call.arg.threshold) = {1, 2}
             /\ FracGT(TitleScore(u, e2), TitleScore(u, e1))
             /\ call.val[n].existing_key = bib_entries.keys[1]

\* the author of a one-line entry as its text writes it, lower-cased
WrittenAuthor(block) == Lower(RawRec(block[1].r).author)

\* the places in the library of the records that the candidate with the
\* record u and the text ub is similar to: title similarity at least the
\* threshold, year similarity and similarity of the authors above 3/10
SimilarAt(u, ub, threshold) ==
    {i \in DOMAIN bib_entries.keys :
        LET e == bib_entries.val[bib_entries.keys[i]]
            eb == original_entries.val[bib_entries.keys[i]]
        IN /\ FracGE(TitleScore(u, e), threshold)
           /\ FracGT(YearScore(u, e), SecondaryBound)
           /\ FracGT(Ratio(WrittenAuthor(ub), WrittenAuthor(eb)), SecondaryBound)}

\* C6: a candidate record is reported exactly when some library record has
\* title similarity at least title_threshold and year similarity and author
\* similarity both strictly greater than 0.3; a candidate with no such
\* library record has no entry in the result.  The code does not keep this:
\* the decoder gives the authors in entry.persons, so the author that
\* _parse_and_store stores is '' for every record, and the author
\* similarity that check_duplicates computes is 1.0 whatever the authors.
C6_AcceptanceCondition ==
    Checked =>
        \A k \in DictKeys(Candidates) :
            (\E n \in DOMAIN call.val : call.val[n].user_key = k)
            <=> SimilarAt(Candidates.val[k],
                          parse_bib_string(call.arg.text).original.val[k],
                          call.arg.threshold) # {}

(***************************************************************************)
(* The scanner on records of several lines: one call of load_bib_file or   *)
(* parse_bib_string on a text of few kinds of lines.                       *)
(***************************************************************************)
\* the start of a record a, the start of a braced field value, a complete
\* one-line entry b whose title has a braced part, and a closing brace
ScanLines ==
    {Line("open", <<"a">>, 0), Line("fldopen", <<>>, 0),
     Line("one", <<"b">>, 1), Line("close", <<>>, 0)}

ScanTexts(n) == SeqsUpTo(ScanLines, n)

NextScan ==
    \/ Fresh /\ \E text \in ScanTexts(MaxScanLines) : LoadBibFile(File(TRUE, text))
    \/ Fresh /\ \E text \in ScanTexts(MaxScanLines) : ParseBibString(text)

SpecScan == Init /\ [][NextScan]_vars

\* the text is one record, from its start line to the line that ends it,
\* as the decoder reads it
IsOneRecord(lines) ==
    /\ lines # <<>>
    /\ KeyMatch(lines[1]).found
    /\ Decode(lines).ok
    /\ Len(Decode(lines).entries) = 1
    /\ Decode(lines).entries[1].key = KeyMatch(lines[1]).key
    /\ \A n \in 1..(Len(lines) - 1) :
          DecodeFrom(DecodeStart, SubSeq(lines, 1, n)).mode = "in"

\* a field value of the record has a braced part: on the one line of the
\* record, or begun on a line of its own
HasSubBlock(lines) ==
    \/ Len(lines) = 1 /\ lines[1].t = "one" /\ "{" \in Range(RawRec(lines[1].r).title)
    \/ \E i \in DOMAIN lines : i > 1 /\ lines[i].t = "fldopen"

\* C22: a record whose field value contains brace-delimited sub-blocks, on
\* one line or over several lines, is emitted by the scanner of
\* load_bib_file as one block that contains all of the record's lines.  The
\* code does not do this for a sub-block with a line that starts with '@':
\* the scanner resets the block there, and emits the rest of the record as
\* a block of its own under the key it reads from that line.
C22_SubBlocksDoNotSplit ==
    (call.op = "load_bib_file" /\ call.arg.exists
        /\ IsOneRecord(call.arg.lines) /\ HasSubBlock(call.arg.lines))
    => /\ LoadScan(call.arg.lines).blocks
              = << [key |-> KeyMatch(call.arg.lines[1]).key, block |-> call.arg.lines] >>
       /\ entry_order = << KeyMatch(call.arg.lines[1]).key >>

(***************************************************************************)
(* normalize_title on its own: one call, on every title of the bound and   *)
(* on None.                                                                *)
(***************************************************************************)
Titles(n) == SeqsUpTo(Chars, n)

NextTitle ==
    \/ Fresh /\ NormalizeTitle(None)
    \/ Fresh /\ \E title \in Titles(MaxTitleLen) : NormalizeTitle(title)

SpecTitle == Init /\ [][NextTitle]_vars

\* C19: normalize_title is idempotent: normalize_title of its result is its
\* result.  The code does not keep this: lower() turns U+0130 into "i" and
\* the combining mark U+0307, which the second substitution removes at the
\* next call.
C19_Idempotent ==
    call.op = "normalize_title" => normalize_title(call.val) = call.val

LowerLetterChars == LetterChars \ (UpperChars \cup {"U+0130"})

\* C20: normalize_title returns a string of lower-case letters, digits and
\* single spaces only, with no space at either end, and the empty string for
\* empty or absent input.  The code does not keep this: the underscore is a
\* word character and stays, and so does the combining mark that lower()
\* makes of U+0130.
C20_OutputAlphabet ==
    call.op = "normalize_title" =>
        /\ \A i \in DOMAIN call.val :
              call.val[i] \in LowerLetterChars \cup DigitChars \cup {" "}
        /\ \A i \in DOMAIN call.val :
              call.val[i] = " " => (i > 1 /\ i < Len(call.val) /\ call.val[i + 1] # " ")
        /\ (call.arg = <<>> \/ call.arg = None) => call.val = <<>>

====
